---- MODULE Spec2Model ----
(***************************************************************************)
(* EEP definition engine of padova_tracks (eep/define_eep.py).             *)
(*                                                                         *)
(* One Track is taken through DefineEeps.load_critical_points and          *)
(* DefineEeps.define_eep_stages.  Python arrays are sequences read with    *)
(* Python's 0-based (and negative) indices through At.  Physical values    *)
(* are scaled to integers: age in 1/100, XCEN in 1/100, YCEN in 1/1000,    *)
(* Z in 1/1000, mass in 1/100.  An uncaught Python exception ends the call *)
(* in pc = "error"; pdb.set_trace() stops it in pc = "pdb".                *)
(***************************************************************************)
EXTENDS Integers, Sequences, FiniteSets, TLC

VARIABLES track, ptcri, pc, ret, run, entry, prev

vars == <<track, ptcri, pc, ret, run, entry, prev>>

\* ------------------------------------------------------------------ bounds
\* number of samples of a track
NSamples == 27
\* number of times define_eep_stages is run on one track
MaxRuns == 2

\* ------------------------------------------------------- python primitives
None == "None"

Abs(x) == IF x < 0 THEN -x ELSE x

\* a[i] of a Python sequence: 0-based, negative indices count from the end
At(a, i) == IF i >= 0 THEN a[i + 1] ELSE a[Len(a) + i + 1]

SetAt(a, i, v) == [a EXCEPT ![IF i >= 0 THEN i + 1 ELSE Len(a) + i + 1] = v]

\* np.arange(lo, hi) as a sequence
Arange(lo, hi) == [k \in 1..(IF hi > lo THEN hi - lo ELSE 0) |-> lo + k - 1]

\* a[inds] for a sequence of indices
Take(a, inds) == [k \in 1..Len(inds) |-> At(a, inds[k])]

\* position (1-based) of the first element of s satisfying s[k] = v, 0 if none
RECURSIVE IndexFrom(_, _, _)
IndexFrom(s, v, k) ==
    IF k > Len(s) THEN 0
    ELSE IF s[k] = v THEN k ELSE IndexFrom(s, v, k + 1)

IndexOf(s, v) == IndexFrom(s, v, 1)

Member(s, v) == IndexOf(s, v) # 0

\* the subsequence of s whose elements are in the set S, in order
RECURSIVE Filter(_, _)
Filter(s, S) ==
    IF s = <<>> THEN <<>>
    ELSE IF Head(s) \in S THEN <<Head(s)>> \o Filter(Tail(s), S)
    ELSE Filter(Tail(s), S)

\* np.nonzero(a == v)[0] : the 0-based indices where a equals v
RECURSIVE WhereEqFrom(_, _, _)
WhereEqFrom(a, v, k) ==
    IF k > Len(a) THEN <<>>
    ELSE IF a[k] = v THEN <<k - 1>> \o WhereEqFrom(a, v, k + 1)
    ELSE WhereEqFrom(a, v, k + 1)

WhereEq(a, v) == WhereEqFrom(a, v, 1)

\* np.nonzero(a > v)[0]
RECURSIVE WhereGtFrom(_, _, _)
WhereGtFrom(a, v, k) ==
    IF k > Len(a) THEN <<>>
    ELSE IF a[k] > v THEN <<k - 1>> \o WhereGtFrom(a, v, k + 1)
    ELSE WhereGtFrom(a, v, k + 1)

WhereGt(a, v) == WhereGtFrom(a, v, 1)

\* np.argmin(np.abs(a - v)) : 0-based index of the first nearest element
RECURSIVE ArgNearestFrom(_, _, _, _)
ArgNearestFrom(a, v, k, best) ==
    IF k > Len(a) THEN best - 1
    ELSE IF Abs(a[k] - v) < Abs(a[best] - v)
         THEN ArgNearestFrom(a, v, k + 1, k)
         ELSE ArgNearestFrom(a, v, k + 1, best)

ArgNearest(a, v) == ArgNearestFrom(a, v, 2, 1)

\* np.argmin(a), np.argmax(a) : 0-based index of the first extreme element
RECURSIVE ArgMinFrom(_, _, _)
ArgMinFrom(a, k, best) ==
    IF k > Len(a) THEN best - 1
    ELSE IF a[k] < a[best] THEN ArgMinFrom(a, k + 1, k)
         ELSE ArgMinFrom(a, k + 1, best)

ArgMin(a) == ArgMinFrom(a, 2, 1)

RECURSIVE ArgMaxFrom(_, _, _)
ArgMaxFrom(a, k, best) ==
    IF k > Len(a) THEN best - 1
    ELSE IF a[k] > a[best] THEN ArgMaxFrom(a, k + 1, k)
         ELSE ArgMaxFrom(a, k + 1, best)

ArgMax(a) == ArgMaxFrom(a, 2, 1)

\* np.round(x, 1) for x in 1/100: to the nearest ten, halves to the even ten
Round1(x) ==
    LET q == x \div 10
        r == x % 10
    IN  IF r < 5 THEN 10 * q
        ELSE IF r > 5 THEN 10 * (q + 1)
        ELSE IF q % 2 = 0 THEN 10 * q ELSE 10 * (q + 1)

\* int(np.round(p / q)) for q > 0: nearest integer, halves to the even one
RoundDiv(p, q) ==
    LET f == p \div q
        r == p % q
    IN  IF 2 * r < q THEN f
        ELSE IF 2 * r > q THEN f + 1
        ELSE IF f % 2 = 0 THEN f ELSE f + 1

\* a variant that truncates instead of rounding
linspace_truncated(a, b, n, k) == (a * (n - 1) + k * (b - a)) \div (n - 1)

\* np.round(np.linspace(a, b, n))[k], k = 0..n-1
Linspace(a, b, n, k) == RoundDiv(a * (n - 1) + k * (b - a), n - 1)

\* ------------------------------------------------------------ EEP catalogue
YcenNames == <<"YCEN_0.550", "YCEN_0.500", "YCEN_0.400", "YCEN_0.200",
               "YCEN_0.100", "YCEN_0.005", "YCEN_0.000">>

\* float(cen.split('_')[-1]) in 1/1000
YcenValues == <<550, 500, 400, 200, 100, 5, 0>>

eep_list == <<"PMS_BEG", "PMS_MIN", "PMS_END", "MS_BEG", "MS_TMIN", "MS_TO",
              "SG_MAXL", "RG_MINL", "RG_BMP1", "RG_BMP2", "RG_TIP", "HE_BEG">>
            \o YcenNames \o <<"AGB_LY1", "AGB_LY2", "TPAGB">>

eep_list_hb == <<"HE_BEG">> \o YcenNames \o <<"AGB_LY1", "AGB_LY2", "TPAGB">>

eep_list_agb == eep_list \o <<"TPAGB1", "TPAGB2">>

sandro_eeps == <<"PMS_BEG", "PMS_MIN", "PMS_END", "NEAR_ZAM", "MS_BEG",
                 "POINT_B", "POINT_C", "RG_BASE", "RG_BMP1", "RG_BMP2",
                 "RG_TIP", "Loop_A", "Loop_B", "Loop_C", "TPAGB">>

sandro_eeps_hb == <<"HE1", "TPAGB">>

\* the catalogue of a track, by its kind
EepNames(t) ==
    IF t.hb THEN eep_list_hb ELSE IF t.agb THEN eep_list_agb ELSE eep_list

SandroNames(t) == IF t.hb THEN sandro_eeps_hb ELSE sandro_eeps

\* the EEPs that are not supplied by the reference table
please_define(t) ==
    Filter(EepNames(t),
           {EepNames(t)[k] : k \in 1..Len(EepNames(t))}
             \ {SandroNames(t)[k] : k \in 1..Len(SandroNames(t))})

\* ptcri.key_dict[name] and ptcri.get_ptcri_name(name, sandro=False):
\* 0-based ordinal, -1 when the name is not in the catalogue
key_dict(t, name) == IndexOf(EepNames(t), name) - 1

\* ptcri.get_ptcri_name(name, sandro=True)
sandro_key(t, name) == IndexOf(SandroNames(t), name) - 1

\* --------------------------------------------------------------- thresholds
\* config.low_mass, config.inte_mass, config.high_mass in 1/100 solar mass
low_mass == 125
inte_mass == 1200
high_mass == 1900

\* ------------------------------------------------------------- track inputs
\* data[age]: a0, a0 + 8, a0 + 16, ... ("even"), or with the last eight
\* samples crowded at the end of a much longer life ("late"): 30.00,
\* 30.01, ...
AgeSig(N, a0, ak) ==
    [k \in 1..N |->
       IF ak = "late" /\ k - 1 >= N - 8 THEN 3000 + (k - 1) - (N - 8)
       ELSE a0 + 8 * (k - 1)]

\* data[XCEN]: 0.70 before index xa, 0.30 up to index xz, 0 from xz on
XcenSig(N, xa, xz) ==
    [k \in 1..N |-> IF k - 1 >= xz THEN 0 ELSE IF k - 1 >= xa THEN 30 ELSE 70]

\* data[YCEN]: 0.98 up to index y0, then a ladder of central-helium values
YcenLadder(yk) ==
    CASE yk = "full" -> YcenValues
      [] yk = "fast" -> <<550, 500, 400, 200, 100, 0>>
      [] yk = "cut"  -> <<550, 500, 400, 200>>
      [] yk = "flare" -> <<550, 500, 400, 200, 400, 200, 100, 5, 0>>
      [] yk = "skip" -> <<600, 400, 200, 100, 5, 0>>

YcenSig(N, y0, yk) ==
    LET lad == YcenLadder(yk)
    IN  [k \in 1..N |->
           IF k - 1 <= y0 THEN 980
           ELSE IF k - 1 - y0 <= Len(lad) THEN lad[k - 1 - y0]
           ELSE lad[Len(lad)]]

\* data[logT]: falling ("flat"), or a minimum at index 5 and a maximum at 7
\* ("vee"), or a minimum at index 5 and, on a rising trend, maxima at 7 and
\* 9 of which the later is the hotter ("twin"), or the minimum and maximum
\* of "vee" and a slow cooling after them ("slow")
LogTSig(N, tk) ==
    [k \in 1..N |->
       LET i == k - 1
       IN  IF tk = "flat" THEN 400 - 2 * i
           ELSE IF tk = "slow" /\ i > 7 THEN 380 - (i - 7)
           ELSE IF tk = "twin" /\ i > 5
                THEN (IF i > 11 THEN 400 - 3 * (i - 11)
                      ELSE <<380, 390, 385, 392, 388, 400>>[i - 5])
           ELSE IF i <= 5 THEN 400 - 6 * i
           ELSE IF i <= 7 THEN 370 + 5 * (i - 5)
           ELSE 380 - 3 * (i - 7)]

\* data[logL]: rising ("mono"), or minima at indices 3 and 10 and a maximum
\* at 9 ("wavy"), or one more maximum right at index 7 ("early")
\* or the same luminosity at indices 5, 9 and 11 ("level"), or a long
\* sub-giant branch: a minimum at index 3, a maximum at 69 and a minimum
\* at 70 ("long")
LogLSig(N, lk) ==
    [k \in 1..N |->
       LET i == k - 1
       IN  IF lk = "mono" THEN 100 + 3 * i
           ELSE IF lk = "long" /\ i > 3
                THEN (IF i <= 69 THEN 100 + (i - 3) ELSE 150 + 5 * (i - 70))
           ELSE IF lk = "level" /\ i > 3
                THEN (IF i > 11 THEN 120 + 5 * (i - 11)
                      ELSE <<104, 120, 116, 112, 116, 120, 116, 120>>[i - 3])
           ELSE IF i <= 3 THEN 130 - 10 * i
           ELSE IF i <= 6 THEN 100 + 4 * (i - 3)
           ELSE IF i = 7 THEN (IF lk = "early" THEN 125 ELSE 116)
           ELSE IF i = 8 THEN 120
           ELSE IF i = 9 THEN 130
           ELSE IF i = 10 THEN 110
           ELSE 110 + 5 * (i - 10)]

\* data['LY']: helium luminosity fraction, with a dip at index hd
\* |LY - LX| of a track with thermal pulses: 9, with dips at the samples
\* and to the depths given as pairs <<sample, depth>>
PulseDips(pk) ==
    CASE pk = "tp1" -> {<<11, 5>>, <<13, 6>>, <<15, 7>>, <<20, 1>>, <<22, 2>>,
                        <<24, 3>>}
      [] pk = "tp2" -> {<<11, 1>>, <<13, 6>>, <<15, 7>>, <<20, 5>>, <<22, 4>>,
                        <<24, 2>>}
      [] pk = "tp3" -> {<<11, 5>>, <<23, 1>>, <<25, 2>>}
      [] pk = "tp4" -> {<<20, 3>>, <<22, 1>>, <<24, 2>>}

PulseDepth(pk, i) ==
    IF \E d \in PulseDips(pk) : d[1] = i
    THEN (CHOOSE d \in PulseDips(pk) : d[1] = i)[2]
    ELSE 9

LYSig(N, hd, pk) ==
    [k \in 1..N |->
       LET i == k - 1
       IN  IF pk # "none" THEN 60 - i + PulseDepth(pk, i)
           ELSE IF i < hd THEN 40 - i
           ELSE IF i = hd THEN 2 ELSE 10 + 3 * (i - hd)]

\* data[MODE]: the model number of sample i is i + 2
ModeSig(N) == [k \in 1..N |-> k + 1]

\* data['step']: thermal-pulse step counter, 1 at each index of the set S
StepSig(N, S) == [k \in 1..N |-> IF (k - 1) \in S THEN 1 ELSE 0]

\* the sample indices of the reference points of a complete track; on a
\* track with s more samples the reference RG base lies two samples before
\* the luminosity minimum
RefIdx(N, hb, he1, s) ==
    IF hb THEN <<he1, N - 1>>
    ELSE <<0, 1, 2, 3, 4, 6, 8, 10 + s - (IF s > 0 THEN 2 ELSE 0), 11 + s,
           12 + s, 13 + s, 15 + s, 17 + s, 19 + s, N - 1>>

\* ptcri.data_dict['M%.3f' % mass]: the model numbers of the first nz
\* reference points; the last cut of them lie past the end of the track,
\* with over by one model
Mptcri(N, hb, he1, nz, cut, over, s) ==
    LET ref == RefIdx(N, hb, he1, s)
    IN  [j \in 1..Len(ref) |->
           IF j > nz THEN 0
           ELSE IF j > nz - cut THEN (IF over THEN N + 2 ELSE N + 1 + j)
           ELSE ref[j] + 2]

\* a Track as the loader hands it over, from the parameters p; a track
\* has NSamples samples and p.extra more on its sub-giant branch
NewTrack(p) ==
    [mass |-> p.mass, Z |-> p.Z, hb |-> p.hb, agb |-> p.agb,
     age  |-> AgeSig(NSamples + p.extra, p.a0, p.ak),
     xcen |-> XcenSig(NSamples + p.extra, p.xa, p.xz),
     ycen |-> YcenSig(NSamples + p.extra, p.y0, p.yk),
     logT |-> LogTSig(NSamples + p.extra, p.tk),
     logL |-> LogLSig(NSamples + p.extra, p.lk),
     LY   |-> LYSig(NSamples + p.extra, p.hd, p.pk),
     \* data['LX']: hydrogen luminosity fraction
     LX   |-> [k \in 1..(NSamples + p.extra) |-> 60 - (k - 1)],
     MODE |-> ModeSig(NSamples + p.extra),
     step |-> StepSig(NSamples + p.extra, p.steps),
     flag |-> p.flag,
     sptcri |-> <<>>,
     iptcri |-> <<>>,
     info |-> <<>>,
     log |-> <<>>,
     err |-> None,
     val |-> 0]

\* the CriticalPointTable for the track's metallicity
NewPtcri(p) ==
    [has_mass |-> p.has_mass,
     data_dict |-> Mptcri(NSamples + p.extra, p.hb, p.he1, p.nz, p.cut,
                          p.over, p.extra),
     fixed |-> FALSE]

\* defaults of the parameters: a complete intermediate-mass track
Default ==
    [mass |-> 200, Z |-> 8, hb |-> FALSE, agb |-> FALSE, a0 |-> 31,
     xa |-> 5, xz |-> 9, y0 |-> 14, yk |-> "full", tk |-> "vee",
     lk |-> "wavy", hd |-> 14, steps |-> {}, flag |-> None,
     has_mass |-> TRUE, he1 |-> 0, nz |-> 15, cut |-> 0, ak |-> "even",
     pk |-> "none", over |-> FALSE, extra |-> 0]

\* ------------------------------------------------------------ bookkeeping
Ok(t) == t.err = None

Raise(t, e) == IF Ok(t) THEN [t EXCEPT !.err = e] ELSE t

\* run F on t unless an exception is already propagating
Then(t, F(_)) == IF Ok(t) THEN F(t) ELSE t

Logged(t, op, name, ind) ==
    [t EXCEPT !.log = Append(@, [op |-> op, eep |-> name, ind |-> ind])]

NData(t) == Len(t.age)

\* track.iptcri[key_dict[name]]
Ip(t, name) == At(t.iptcri, key_dict(t, name))

\* DefineEeps.add_eep
add_eep(t, eep_name, ind, message) ==
    IF ~Ok(t) THEN t
    ELSE IF key_dict(t, eep_name) < 0 THEN Raise(t, "KeyError")
    ELSE IF Len(t.iptcri) = 0 THEN Raise(t, "AttributeError")
    ELSE Logged([t EXCEPT
                   !.iptcri = SetAt(@, key_dict(t, eep_name), ind),
                   !.info = [n \in (DOMAIN @) \cup {eep_name} |->
                               IF n = eep_name THEN message ELSE @[n]]],
                "add_eep", eep_name, ind)

\* [self.add_eep(track, cp, 0, message) for cp in names]
RECURSIVE add_eeps_zero(_, _, _)
add_eeps_zero(t, names, message) ==
    IF names = <<>> THEN t
    ELSE add_eeps_zero(add_eep(t, Head(names), 0, message), Tail(names),
                       message)

\* track.iptcri[track.iptcri > 0]
RECURSIVE Positive(_)
Positive(s) ==
    IF s = <<>> THEN <<>>
    ELSE IF Head(s) > 0 THEN <<Head(s)>> \o Positive(Tail(s))
    ELSE Positive(Tail(s))

\* np.nonzero(np.diff(s) <= 0)[0] is not empty
HasNonPositiveDiff(s) == \E k \in 1..(Len(s) - 1) : s[k + 1] - s[k] <= 0

\* the test of check_for_monotonic_increase: a violation is found
negatives(t) == HasNonPositiveDiff(Positive(t.iptcri))

\* a variant of the check that reports nothing: the violation is found
\* but the track is not flagged
check_without_flag(t) ==
    IF ~Ok(t) THEN t ELSE [Logged(t, "check", "", 0) EXCEPT !.val = 0]

\* the entries of s with every positive entry that does not exceed the
\* positive entry before it moved to the sample after that one
RECURSIVE Nudged(_, _)
Nudged(s, last) ==
    IF s = <<>> THEN <<>>
    ELSE IF Head(s) <= 0 THEN <<Head(s)>> \o Nudged(Tail(s), last)
    ELSE IF Head(s) <= last THEN <<last + 1>> \o Nudged(Tail(s), last + 1)
    ELSE <<Head(s)>> \o Nudged(Tail(s), Head(s))

\* a variant of the check that repositions the offending EEPs instead of
\* flagging the track
check_with_repair(t) ==
    IF ~Ok(t) THEN t
    ELSE IF t.flag = None /\ negatives(t)
         THEN [Logged(t, "check", "", 0) EXCEPT
                 !.iptcri = Nudged(@, 0), !.val = 0]
         ELSE [Logged(t, "check", "", 0) EXCEPT !.val = 0]

\* a variant of the check that stores an EEP once more after checking
check_before_last_eep(t) ==
    IF ~Ok(t) THEN t
    ELSE IF t.flag = None /\ negatives(t)
         THEN add_eep([Logged(t, "check", "", 0) EXCEPT
                         !.flag = "eeps not monotonically increasing",
                         !.val = 1],
                      "HE_BEG", Ip(t, "HE_BEG"), "kept")
         ELSE add_eep([Logged(t, "check", "", 0) EXCEPT !.val = 0],
                      "HE_BEG", Ip(t, "HE_BEG"), "kept")

\* DefineEeps.check_for_monotonic_increase, up to the debugger call;
\* val = 1 when it stops in pdb.set_trace()
check_for_monotonic_increase(t) ==
    IF ~Ok(t) THEN t
    ELSE IF t.flag # None THEN [Logged(t, "check", "", 0) EXCEPT !.val = 0]
    ELSE IF negatives(t)
         THEN [Logged(t, "check", "", 0) EXCEPT
                 !.flag = "eeps not monotonically increasing", !.val = 1]
         ELSE [Logged(t, "check", "", 0) EXCEPT !.val = 0]

\* --------------------------------------------------------- InDevelopment
\* np.diff(s)
Diff(s) == [k \in 1..(Len(s) - 1) |-> s[k + 1] - s[k]]

\* InDevelopment.check_sandros_eeps on an instance of InDevelopment, a class
\* that defines neither ptcri nor add_eep: with a closest pair of defined
\* EEPs at most one sample apart the call ends where it reads self.ptcri
\* (line 1277) or self.add_eep (line 1304), or before that where it reads
\* the name after the last of eep_list (line 1276)
check_sandros_eeps(t) ==
    LET close(idefined, defined, same) ==
            IF At(idefined, same + 1) - At(idefined, same - 1) < 5
               /\ IndexOf(eep_list, At(defined, same + 1)) = Len(eep_list)
            THEN Raise(t, "IndexError")
            ELSE Raise(t, "AttributeError")
        diffs(idefined, inds, d) ==
            IF Len(d) = 0 THEN Raise(t, "ValueError")
            ELSE IF At(d, ArgMin(d)) <= 1
                 THEN close(idefined, Take(eep_list, inds), ArgMin(d))
                 ELSE t
        on(inds) ==
            IF \E k \in 1..Len(inds) : inds[k] >= Len(eep_list)
            THEN Raise(t, "IndexError")
            ELSE diffs(Take(t.iptcri, inds), inds, Diff(Take(t.iptcri, inds)))
    IN  IF ~Ok(t) THEN t
        ELSE IF Len(t.iptcri) = 0 THEN Raise(t, "AttributeError")
        ELSE on(WhereGt(t.iptcri, 0))

\* ------------------------------------------------- load_critical_points
\* np.concatenate([np.nonzero(track.data[MODE] == m)[0] for m in mptcri])
RECURSIVE MatchModes(_, _)
MatchModes(mode, mptcri) ==
    IF mptcri = <<>> THEN <<>>
    ELSE WhereEq(mode, Head(mptcri)) \o MatchModes(mode, Tail(mptcri))

\* len(np.nonzero(a)[0])
RECURSIVE CountNonZero(_)
CountNonZero(a) ==
    IF a = <<>> THEN 0
    ELSE (IF Head(a) # 0 THEN 1 ELSE 0) + CountNonZero(Tail(a))

\* pinds and sinds: the ordinals shared by the catalogue and the reference list
pinds(t) ==
    Filter([k \in 1..Len(EepNames(t)) |-> k],
           {k \in 1..Len(EepNames(t)) : Member(SandroNames(t), EepNames(t)[k])})

sinds(t) ==
    Filter([k \in 1..Len(SandroNames(t)) |-> k],
           {k \in 1..Len(SandroNames(t)) : Member(EepNames(t), SandroNames(t)[k])})

\* track.iptcri after lines 1006-1025
InitIptcri(t, mptcri) ==
    LET raw == [k \in 1..Len(EepNames(t)) |->
                  IF IndexOf(pinds(t), k) # 0
                  THEN mptcri[sinds(t)[IndexOf(pinds(t), k)]] - 2
                  ELSE 0]
        nonneg == [k \in DOMAIN raw |-> IF raw[k] < 0 THEN 0 ELSE raw[k]]
    IN  [k \in DOMAIN nonneg |->
           IF nonneg[k] > NData(t) THEN 0 ELSE nonneg[k]]

\* lines 951-952: a flagged track is returned untouched
LcpFlagged ==
    /\ pc = "load_critical_points"
    /\ track.flag # None
    /\ pc' = "done"
    /\ UNCHANGED <<track, ptcri, ret, run, entry, prev>>

\* lines 982-989: the mass is not in the table
LcpNoMass ==
    /\ pc = "load_critical_points"
    /\ track.flag = None
    /\ ~ptcri.has_mass
    /\ track' = [track EXCEPT !.flag = "no ptcri mass"]
    /\ pc' = "done"
    /\ UNCHANGED <<ptcri, ret, run, entry, prev>>

\* a variant of the matching that treats the loss of one last point like
\* any other mismatch
match_sptcri_strict(t, mptcri) ==
    LET set(matched, nnz) ==
            IF Len(matched) # nnz
            THEN [t EXCEPT
                    !.sptcri = matched,
                    !.flag = "ptcri file does not match track, not enough MODEs"]
            ELSE [t EXCEPT !.sptcri = matched]
    IN  set(MatchModes(t.MODE, mptcri), CountNonZero(mptcri))

\* lines 990-1001 on the track: sptcri, and the flag of a mismatch that is
\* not the loss of one last point
match_sptcri(t, mptcri) ==
    LET set(matched, nnz) ==
            IF Len(matched) # nnz
            THEN IF nnz - Len(matched) = 1
                 THEN [t EXCEPT !.sptcri = Append(matched, NData(t) - 1)]
                 ELSE [t EXCEPT
                         !.sptcri = matched,
                         !.flag = "ptcri file does not match track, not enough MODEs"]
            ELSE [t EXCEPT !.sptcri = matched]
    IN  set(MatchModes(t.MODE, mptcri), CountNonZero(mptcri))

\* lines 990-1001 on the table: mptcri[-1] of the repair, fix_ptcri of the
\* mismatch
match_ptcri(t, p) ==
    LET set(nmatched, nnz) ==
            IF nmatched # nnz
            THEN IF nnz - nmatched = 1
                 THEN [p EXCEPT !.data_dict = SetAt(@, -1, NData(t) + 1)]
                 ELSE [p EXCEPT !.fixed = TRUE]
            ELSE p
    IN  set(Len(MatchModes(t.MODE, p.data_dict)), CountNonZero(p.data_dict))

\* lines 990-1001: match the reference model numbers to the samples
LcpMatch ==
    /\ pc = "load_critical_points"
    /\ track.flag = None
    /\ ptcri.has_mass
    /\ track' = match_sptcri(track, ptcri.data_dict)
    /\ ptcri' = match_ptcri(track, ptcri)
    /\ pc' = "lcp_init"
    /\ UNCHANGED <<ret, run, entry, prev>>

\* lines 1003-1029: initialise iptcri from the table, call define_eep_stages
LcpInit ==
    /\ pc = "lcp_init"
    /\ track' = [track EXCEPT !.iptcri = InitIptcri(track, ptcri.data_dict)]
    /\ pc' = "define_eep_stages"
    /\ UNCHANGED <<ptcri, ret, run, entry, prev>>

\* ------------------------------------------------------ CurveFeatureFinder
\* utils.closest_match(val, arr): (index of the nearest value, |difference|)
closest_match_ind(val, arr) == ArgNearest(arr, val)

closest_match_dif(val, arr) == Abs(At(arr, ArgNearest(arr, val)) - val)

\* the next value of a after position k (1-based) that differs from a[k]
RECURSIVE NextDifferent(_, _, _)
NextDifferent(a, k, j) ==
    IF j > Len(a) THEN a[k]
    ELSE IF a[j] # a[k] THEN a[j] ELSE NextDifferent(a, k, j + 1)

\* utils.find_peaks(a)['minima_locations'] / ['maxima_locations']: 0-based
\* interior indices where the first difference changes sign; a plateau
\* counts at its first sample
IsExtremum(a, k, get_max) ==
    /\ k > 1
    /\ k < Len(a)
    /\ IF get_max
       THEN a[k - 1] < a[k] /\ NextDifferent(a, k, k + 1) < a[k]
       ELSE a[k - 1] > a[k] /\ NextDifferent(a, k, k + 1) > a[k]

RECURSIVE ExtremaFrom(_, _, _)
ExtremaFrom(a, k, get_max) ==
    IF k >= Len(a) THEN <<>>
    ELSE IF IsExtremum(a, k, get_max)
         THEN <<k - 1>> \o ExtremaFrom(a, k + 1, get_max)
         ELSE ExtremaFrom(a, k + 1, get_max)

find_peaks(a, get_max) == ExtremaFrom(a, 2, get_max)

\* the signal with the straight line through its end points taken off
\* (scaled by its length, which keeps the positions of the extrema)
LessLinear(a) ==
    [k \in 1..Len(a) |->
       (Len(a) - 1) * (a[k] - a[1]) - (k - 1) * (a[Len(a)] - a[1])]

\* extrema that survive the smoothing of the parametric spline: they stand
\* out from both neighbours by more than one unit
Resolved(a, ext) ==
    Filter(ext, {i \in 0..(Len(a) - 1) :
                   /\ i > 0
                   /\ i < Len(a) - 1
                   /\ Abs(a[i + 1] - a[i]) > 1
                   /\ Abs(a[i + 1] - NextDifferent(a, i + 1, i + 2)) > 1})

\* the candidate picked by more_than_one
PickExtremum(a, ext, more_than_one) ==
    CASE more_than_one = "first" -> ext[1]
      [] more_than_one = "last" -> ext[Len(ext)]
      [] more_than_one = "min of min" -> ext[ArgMin(Take(a, ext)) + 1]
      [] more_than_one = "max of max" -> ext[ArgMax(Take(a, ext)) + 1]

\* Interpolator.peak_finder on the samples inds of the column col
peak_finder_inds(col, inds, kw) ==
    LET pick(sig, ext) ==
            IF Len(ext) = 0 THEN -1
            ELSE inds[PickExtremum(sig, ext, kw.more_than_one) + 1]
        resolve(sig, all) ==
            pick(sig, IF kw.parametric_interp THEN Resolved(sig, all) ELSE all)
        search(sig) == resolve(sig, find_peaks(sig, kw.get_max))
        fit(raw) == search(IF kw.less_linear_fit THEN LessLinear(raw) ELSE raw)
    IN  IF Len(inds) = 0 THEN -1 ELSE fit(Take(col, inds))

\* the keyword defaults of peak_finder
pf_kw == [get_max |-> FALSE, sandro |-> TRUE, more_than_one |-> "max of max",
          parametric_interp |-> TRUE, less_linear_fit |-> FALSE]

\* ptcri.inds_between_ptcris(track, name1, name2, sandro): the sample
\* indices from the first point to the second, both included; val = 0 when
\* a reference ordinal is past the end of track.sptcri
InSandro(t, name) ==
    sandro_key(t, name) >= 0 /\ sandro_key(t, name) < Len(t.sptcri)

EepIndex(t, name, sandro) ==
    IF sandro THEN At(t.sptcri, sandro_key(t, name)) ELSE Ip(t, name)

inds_between_ptcris(t, name1, name2, sandro) ==
    Arange(EepIndex(t, name1, sandro), EepIndex(t, name2, sandro) + 1)

CanIndex(t, name1, name2, sandro) ==
    IF sandro THEN InSandro(t, name1) /\ InSandro(t, name2)
    ELSE key_dict(t, name1) >= 0 /\ key_dict(t, name2) >= 0

\* self.peak_finder(track, col, eep1, eep2, **kw) with EEP names: the track
\* with val the index found, -1 for none
peak_finder(t, col, eep1, eep2, kw) ==
    LET found(r) ==
            [Logged(t, "peak_finder", kw.more_than_one, r) EXCEPT !.val = r]
    IN  IF ~Ok(t) THEN t
        ELSE IF ~CanIndex(t, eep1, eep2, kw.sandro) THEN Raise(t, "IndexError")
        ELSE found(peak_finder_inds(
                     col, inds_between_ptcris(t, eep1, eep2, kw.sandro), kw))

\* self.peak_finder(track, col, start, end, **kw) with sample indices
peak_finder_int(t, col, start, end, kw) ==
    LET found(r) ==
            [Logged(t, "peak_finder", kw.more_than_one, r) EXCEPT !.val = r]
    IN  IF ~Ok(t) THEN t
        ELSE found(peak_finder_inds(col, Arange(start, end + 1), kw))

\* second differences of xdata at its interior samples (0 at the ends)
SecondDiff(x) ==
    [k \in 1..Len(x) |->
       IF k = 1 \/ k = Len(x) THEN 0 ELSE x[k + 1] - 2 * x[k] + x[k - 1]]

\* second_derivative(xdata, inds, gt): the sample of smallest second
\* derivative among those that follow a sample of positive (gt: negative)
\* second derivative; -1 when there is none.  The spline is read at the
\* samples, where its second derivative is the second difference.
second_derivative_ind(xdata, inds, gt) ==
    LET least(dd, cand) ==
            IF cand = {} THEN -1
            ELSE inds[CHOOSE k \in cand :
                        \A j \in cand :
                          dd[k] < dd[j] \/ (dd[k] = dd[j] /\ k <= j)]
        after(dd) ==
            least(dd, {k \in 2..Len(xdata) :
                         IF gt THEN dd[k - 1] < 0 ELSE dd[k - 1] > 0})
    IN  after(SecondDiff(xdata))

\* second_derivative: splprep needs more points than the spline degree 3
second_derivative(t, xdata, inds, gt) ==
    LET found(r) == [Logged(t, "second_derivative", "", r) EXCEPT !.val = r]
    IN  IF ~Ok(t) THEN t
        ELSE IF Len(inds) <= 3 THEN Raise(t, "TypeError")
        ELSE found(second_derivative_ind(xdata, inds, gt))

\* ------------------------------------------------------------ EEP routines
\* track.info[name] = message, without touching iptcri
SetInfo(t, name, message) ==
    [t EXCEPT !.info = [n \in (DOMAIN @) \cup {name} |->
                          IF n = name THEN message ELSE @[n]]]

\* DefineEeps.add_tpagb_eeps: three markers evenly spaced in age after the
\* sample with step == 1
add_tpagb_eeps(t) ==
    LET mark(tp_start, tpage2) ==
            add_eep(add_eep(add_eep(t, "TPAGB",
                                    ArgNearest(tpage2, 0) + tp_start,
                                    "TPAGB start"),
                            "TPAGB1",
                            ArgNearest(tpage2, At(tpage2, -1) \div 2) + tp_start,
                            "TPAGB age 1"),
                    "TPAGB2",
                    ArgNearest(tpage2, 2 * (At(tpage2, -1) \div 2)) + tp_start,
                    "TPAGB age 2")
        from(tp_start) ==
            mark(tp_start,
                 [k \in 1..(NData(t) - tp_start) |->
                    2 * (At(t.age, tp_start + k - 1) - At(t.age, tp_start))])
    IN  IF ~Ok(t) THEN t
        ELSE IF Len(WhereEq(t.step, 1)) # 1 THEN Raise(t, "ValueError")
        ELSE from(WhereEq(t.step, 1)[1])

\* DefineEeps.add_hb_beg
add_hb_beg(t) ==
    IF ~Ok(t) THEN t
    ELSE IF Len(t.sptcri) = 0 THEN Raise(t, "IndexError")
    ELSE IF At(t.sptcri, 0) # 0
         THEN add_eep(t, "HE_BEG", At(t.sptcri, 0), "Sandros He1")
    ELSE IF Len(WhereGt(t.age, 20)) = 0 THEN Raise(t, "IndexError")
    ELSE add_eep(t, "HE_BEG", WhereGt(t.age, 20)[1],
                 "first point with age > 0.2")

\* the tolerance tol of add_cen_eeps, in 1/1000
tol == 10

\* the YCEN EEPs of please_define, as ordinals of YcenNames
cens(t) ==
    Filter([k \in 1..Len(YcenNames) |-> k],
           {k \in 1..Len(YcenNames) : Member(please_define(t), YcenNames[k])})

\* a variant of the loop that keeps the nearest sample whatever its distance
RECURSIVE add_cen_loop_any(_, _, _)
add_cen_loop_any(t, k, lo) ==
    LET next(c, icen) ==
            add_cen_loop_any(add_eep(t, YcenNames[c], icen, "YCEN =="),
                             k + 1, icen + 1)
        near(c, inds, arr) ==
            next(c, inds[closest_match_ind(YcenValues[c], arr) + 1])
        window(inds) ==
            IF Len(inds) = 0 THEN Raise(t, "ValueError")
            ELSE near(cens(t)[k], inds, Take(t.ycen, inds))
    IN  IF ~Ok(t) \/ k > Len(cens(t)) THEN t
        ELSE window(Arange(lo, NData(t)))

\* the loop of add_cen_eeps from the k-th central value on, searching the
\* samples lo .. end of track
RECURSIVE add_cen_loop(_, _, _)
add_cen_loop(t, k, lo) ==
    LET next(c, icen) ==
            add_cen_loop(add_eep(t, YcenNames[c], icen, "YCEN =="),
                         k + 1, icen + 1)
        near(c, inds, arr) ==
            next(c, IF closest_match_dif(YcenValues[c], arr) > tol THEN 0
                    ELSE inds[closest_match_ind(YcenValues[c], arr) + 1])
        window(inds) ==
            IF Len(inds) = 0 THEN Raise(t, "ValueError")
            ELSE near(cens(t)[k], inds, Take(t.ycen, inds))
    IN  IF ~Ok(t) \/ k > Len(cens(t)) THEN t
        ELSE window(Arange(lo, NData(t)))

\* DefineEeps.add_cen_eeps(track, hb, istart), istart = -1 for None
add_cen_eeps(t, hb, istart) ==
    IF ~Ok(t) THEN t
    ELSE add_cen_loop(t, 1, IF hb THEN 0
                            ELSE IF istart = -1 THEN Ip(t, "RG_TIP")
                            ELSE istart)

\* the list icens returned by add_cen_eeps, read back from the track
icens(t) == [k \in 1..Len(cens(t)) |-> Ip(t, YcenNames[cens(t)[k]])]

\* DefineEeps.add_quiesscent_he_eep on the sample indices inds
quiesscent_on(t, inds) ==
    LET found(i, message) == [add_eep(t, "HE_BEG", i, message) EXCEPT !.val = i]
        after(ly, he_max, rest) ==
            IF ArgMin(ly) = 0
               \/ (IF At(ly, 0) = 0 THEN At(ly, he_max) > 0
                   ELSE At(ly, he_max) > 10 * At(ly, 0))
            THEN IF Len(rest) = 0 THEN Raise(t, "ValueError")
                 ELSE found(At(inds, he_max + 1 + ArgMin(rest)),
                            "Min LY after RG_TIP")
            ELSE found(At(inds, ArgMin(ly)), "Min LY after RG_TIP")
        peak(ly, he_max) == after(ly, he_max, SubSeq(ly, he_max + 2, Len(ly)))
        on(ly, subset) ==
            IF subset = 0 THEN Raise(t, "ValueError")
            ELSE peak(ly, ArgMax(SubSeq(ly, 1, subset)))
    IN  IF ~Ok(t) THEN t
        ELSE IF Len(inds) = 0 THEN found(0, "No HE_BEG")
        ELSE on(Take(t.LY, inds), (At(inds, -1) - At(inds, 0) + 1) \div 3)

\* add_quiesscent_he_eep(track, ycen1, start) with EEP names
add_quiesscent_he_eep(t, ycen1, start) ==
    IF ~Ok(t) THEN t
    ELSE quiesscent_on(t, inds_between_ptcris(t, start, ycen1, FALSE))

\* add_quiesscent_he_eep(track, ycen1, start) with sample indices
add_quiesscent_he_eep_int(t, ycen1, start) ==
    quiesscent_on(t, Arange(start, ycen1))

\* a variant of check_pms_beg that moves PMS_BEG on from where it is stored
check_pms_beg_relative(t) ==
    IF ~Ok(t) THEN t
    ELSE IF Len(t.sptcri) = 0 THEN Raise(t, "IndexError")
    ELSE IF At(t.age, At(t.sptcri, 0)) <= 20
         THEN add_eep(t, "PMS_BEG", Ip(t, "PMS_BEG") + 1,
                      "overwritten with age > 0.2")
    ELSE t

\* DefineEeps.check_pms_beg
check_pms_beg(t) ==
    IF ~Ok(t) THEN t
    ELSE IF Len(t.sptcri) = 0 THEN Raise(t, "IndexError")
    ELSE IF At(t.age, At(t.sptcri, 0)) <= 20
         THEN LET older == WhereGt([k \in 1..NData(t) |-> Round1(t.age[k])], 20)
              IN  IF Len(older) = 0 THEN Raise(t, "IndexError")
                  ELSE add_eep(t, "PMS_BEG", older[1],
                               "overwritten with age > 0.2")
    ELSE t

\* DefineEeps.add_ms_beg_eep(track, xcen=0.6): the parameter xcen hides the
\* column name, track.data[0.6] is no column
add_ms_beg_eep(t) == Raise(t, "IndexError")

\* define_eep_stages, lines 162-173: the central hydrogen at MS_BEG
check_ms_beg(t) ==
    LET low(t1) == IF t.mass <= low_mass THEN add_ms_beg_eep(t1) ELSE t1
    IN  IF ~Ok(t) THEN t
        ELSE IF Len(t.sptcri) <= 4
             THEN Raise(SetInfo(t, "MS_BEG", "Incomplete track?"), "NameError")
        ELSE IF At(t.xcen, At(t.sptcri, 4)) < 60
             THEN low(SetInfo(t, "MS_BEG",
                              "Sandro's MS_BEG but could be wrong XCEN < 0.6"))
        ELSE t

\* ---------------------------------------------------------- add_agb_eeps
\* no_agb: np.round(np.linspace(track.iycen_0000, track.iptcri[-1], 4))[1:3]
no_agb(t, k) == Linspace(Ip(t, "YCEN_0.000"), At(t.iptcri, -1), 4, k)

\* np.nonzero(track.data[ycen] == 0.00)[0]
ex_inds(t) == WhereEq(t.ycen, 0)

\* np.abs(ly[ex_inds] - lx[ex_inds])
diff_L(t) ==
    [k \in 1..Len(ex_inds(t)) |->
       Abs(At(t.LY, ex_inds(t)[k]) - At(t.LX, ex_inds(t)[k]))]

\* s[:n] for n >= 0
Prefix(s, n) == SubSeq(s, 1, IF n < Len(s) THEN n ELSE Len(s))

\* the position in mins of the deepest minimum, leaving out position skip
Deepest(t, mins, skip) ==
    CHOOSE k \in (1..Len(mins)) \ {skip} :
      \A j \in (1..Len(mins)) \ {skip} :
        \/ At(diff_L(t), mins[k]) < At(diff_L(t), mins[j])
        \/ (At(diff_L(t), mins[k]) = At(diff_L(t), mins[j]) /\ k <= j)

\* np.sort(ex_inds[np.asarray(mins)[np.argsort(diff_L[mins])[0:2]]])
TwoDeepest(t, mins) ==
    LET sorted(a, b) == IF a < b THEN <<a, b>> ELSE <<b, a>>
        second(k1) ==
            sorted(At(ex_inds(t), mins[k1]),
                   At(ex_inds(t), mins[Deepest(t, mins, k1)]))
    IN  second(Deepest(t, mins, 0))

\* norm_age[i] > num / den
NormAgeGt(t, i, num, den) == den * At(t.age, i) > num * At(t.age, -1)

\* the two "take away some mins" loops: st holds mins, i and the markers;
\* which is 1 for the AGB_LY1 loop (0.98), 2 for the AGB_LY2 loop (0.999)
RECURSIVE tp_loop(_, _, _)
tp_loop(t, st, which) ==
    LET again(mins, pair) ==
            tp_loop(t, [st EXCEPT !.mins = mins, !.i = @ - 1,
                                  !.ly1 = pair[1], !.ly2 = pair[2]],
                    which)
        shrink(mins) ==
            IF Len(mins) < 2
            THEN [st EXCEPT !.mins = mins, !.ly1 = no_agb(t, 1),
                            !.ly2 = no_agb(t, 2), !.fallback = TRUE]
            ELSE again(mins, TwoDeepest(t, mins))
    IN  IF ~(IF which = 1 THEN NormAgeGt(t, st.ly1, 98, 100)
                          ELSE NormAgeGt(t, st.ly2, 999, 1000))
        THEN st
        ELSE shrink(Prefix(st.mins, st.i))

\* a variant that keeps the two deepest minima wherever they lie
agb_choice_deepest(t) ==
    LET on(mins) ==
            IF Len(mins) <= 2
            THEN [mins |-> mins, i |-> 4, ly1 |-> no_agb(t, 1),
                  ly2 |-> no_agb(t, 2), fallback |-> TRUE]
            ELSE [mins |-> mins, i |-> 4, ly1 |-> TwoDeepest(t, mins)[1],
                  ly2 |-> TwoDeepest(t, mins)[2], fallback |-> FALSE]
    IN  on(Prefix(find_peaks(diff_L(t), FALSE), 6))

\* the markers chosen at lines 444-489, before the check against TPAGB
agb_choice(t) ==
    LET second(st1) ==
            IF NormAgeGt(t, st1.ly2, 999, 1000) THEN tp_loop(t, st1, 2)
            ELSE st1
        first(st0) ==
            second(IF /\ 100 * At(t.age, At(ex_inds(t), st0.mins[1]))
                           < 89 * At(t.age, -1)
                      /\ NormAgeGt(t, st0.ly1, 98, 100)
                   THEN tp_loop(t, st0, 1) ELSE st0)
        start(mins, pair) ==
            first([mins |-> mins, i |-> 4, ly1 |-> pair[1], ly2 |-> pair[2],
                   fallback |-> FALSE])
        on(mins) ==
            IF Len(mins) <= 2
            THEN [mins |-> mins, i |-> 4, ly1 |-> no_agb(t, 1),
                  ly2 |-> no_agb(t, 2), fallback |-> TRUE]
            ELSE start(mins, TwoDeepest(t, mins))
    IN  on(Prefix(find_peaks(diff_L(t), FALSE), 6))

\* DefineEeps.add_agb_eeps
add_agb_eeps(t) ==
    LET place(st) ==
            add_eep(add_eep(t, "AGB_LY1",
                            IF st.ly1 > At(t.iptcri, -1) THEN no_agb(t, 1)
                            ELSE st.ly1,
                            "AGB_LY1"),
                    "AGB_LY2",
                    IF st.ly2 > At(t.iptcri, -1) THEN no_agb(t, 2) ELSE st.ly2,
                    "AGB_LY2")
    IN  IF ~Ok(t) THEN t ELSE place(agb_choice(t))

\* ------------------------------------------------------ add_high_mass_eeps
\* DefineEeps.add_eep_with_age(track, eep_name, age): the parameter age
\* hides the column name, track.data[<a number>] is no column
add_eep_with_age(t, eep_name, a) == Raise(t, "IndexError")

\* add_high_mass_eeps.add_msbeg(track, start, end); val is ms_beg
add_msbeg(t, start, end) ==
    LET kw == [pf_kw EXCEPT !.get_max = FALSE, !.sandro = FALSE,
                            !.more_than_one = "min of min"]
        set(t3) == add_eep(t3, "MS_BEG", t3.val, "Min logL")
        retry(t2) ==
            set(IF Ok(t2) /\ t2.val = -1
                THEN peak_finder(t2, t.logL, start, end,
                                 [kw EXCEPT !.parametric_interp = FALSE])
                ELSE t2)
        pms(f) ==
            add_eep(f, "PMS_END", f.val,
                    "PMS_END fixed by max L between PMS_MIN and MS_BEG")
    IN  IF ~Ok(t) THEN t
        ELSE retry(peak_finder(
                     IF t.Z < 4
                     THEN pms(peak_finder(t, t.logL, "PMS_MIN", "NEAR_ZAM",
                                [pf_kw EXCEPT !.get_max = TRUE,
                                              !.sandro = TRUE,
                                              !.more_than_one = "last",
                                              !.parametric_interp = FALSE]))
                     ELSE t,
                     t.logL, start, end, kw))

\* add_high_mass_eeps.add_mstmin(track, start, end); val is ms_tmin
add_mstmin(t, start, end) ==
    LET set(f) == add_eep(f, "MS_TMIN", f.val, "Min logT")
    IN  IF ~Ok(t) THEN t
        ELSE set(peak_finder_int(t, t.logT, start, end,
                   [pf_kw EXCEPT !.get_max = FALSE, !.sandro = FALSE,
                                 !.more_than_one = "min of min",
                                 !.parametric_interp = FALSE]))

\* a variant that takes the last sample with XCEN == 0
last_xcen_zero(t) == WhereEq(t.xcen, 0)[Len(WhereEq(t.xcen, 0))]

\* np.nonzero(track.data[xcen] == 0)[0][0]
first_xcen_zero(t) == WhereEq(t.xcen, 0)[1]

\* a variant that searches MS_TMIN first at low metallicity and MS_BEG first
\* at high metallicity
high_mass_ms_low_first(t) ==
    LET ms_to == first_xcen_zero(t)
        halfway(t3) ==
            IF ~Ok(t3) THEN t3
            ELSE IF t3.val.ms_tmin = -1
                 THEN add_eep(t3, "MS_TMIN",
                              ArgNearest([k \in 1..NData(t) |-> 2 * t.age[k]],
                                         At(t.age, ms_to)
                                           + At(t.age, t3.val.ms_beg)),
                              "halfway in age between MS_BEG and MS_TO")
                 ELSE t3
        both(b, ms_beg, ms_tmin) ==
            halfway([b EXCEPT !.val = [ms_beg |-> ms_beg, ms_tmin |-> ms_tmin]])
        beg_last(b, ms_tmin) == both(b, b.val, ms_tmin)
        tmin_last(b, ms_beg) == both(b, ms_beg, b.val)
        tmin_first(a) == beg_last(add_msbeg(a, "PMS_END", "MS_TMIN"), a.val)
        beg_first(a) == tmin_last(add_mstmin(a, a.val, ms_to), a.val)
        order(t1) ==
            IF t.Z <= 10 THEN tmin_first(add_mstmin(t1, At(t.sptcri, 2), ms_to))
            ELSE beg_first(add_msbeg(t1, "PMS_END", "MS_TO"))
    IN  IF ~Ok(t) THEN t
        ELSE IF Len(WhereEq(t.xcen, 0)) = 0 THEN Raise(t, "IndexError")
        ELSE order(add_eep(t, "MS_TO", ms_to, "XCEN==0"))

\* lines 294-313: MS_TO, MS_BEG and MS_TMIN of a high-mass track
high_mass_ms(t) ==
    LET ms_to == first_xcen_zero(t)
        halfway(t3) ==
            IF ~Ok(t3) THEN t3
            ELSE IF t3.val.ms_tmin = -1
                 THEN add_eep(t3, "MS_TMIN",
                              ArgNearest([k \in 1..NData(t) |-> 2 * t.age[k]],
                                         At(t.age, ms_to)
                                           + At(t.age, t3.val.ms_beg)),
                              "halfway in age between MS_BEG and MS_TO")
                 ELSE t3
        both(b, ms_beg, ms_tmin) ==
            halfway([b EXCEPT !.val = [ms_beg |-> ms_beg, ms_tmin |-> ms_tmin]])
        beg_last(b, ms_tmin) == both(b, b.val, ms_tmin)
        tmin_last(b, ms_beg) == both(b, ms_beg, b.val)
        tmin_first(a) == beg_last(add_msbeg(a, "PMS_END", "MS_TMIN"), a.val)
        beg_first(a) == tmin_last(add_mstmin(a, a.val, ms_to), a.val)
        order(t1) ==
            IF t.Z > 10 THEN tmin_first(add_mstmin(t1, At(t.sptcri, 2), ms_to))
            ELSE beg_first(add_msbeg(t1, "PMS_END", "MS_TO"))
    IN  IF ~Ok(t) THEN t
        ELSE IF Len(WhereEq(t.xcen, 0)) = 0 THEN Raise(t, "IndexError")
        ELSE order(add_eep(t, "MS_TO", ms_to, "XCEN==0"))

\* the list eeps of lines 344-346
high_mass_eeps_list(t) ==
    <<Ip(t, "MS_BEG"), Ip(t, "MS_TMIN"), Ip(t, "MS_TO"), Ip(t, "SG_MAXL"),
      Ip(t, "RG_MINL"), Ip(t, "RG_BMP1"), Ip(t, "RG_BMP2"), Ip(t, "RG_TIP"),
      Ip(t, "HE_BEG")>> \o icens(t) \o <<NData(t) - 1>>

\* a variant that resets YCEN_0.000 when it is at the last sample
add_high_mass_eeps_patch_at_fin(t) ==
    LET fin == NData(t) - 1
        ms_to == first_xcen_zero(t)
        message == "linspace between MS_TO, HE_BEG"
        verdict(t11) ==
            IF ~Ok(t11) THEN t11
            ELSE [t11 EXCEPT !.val =
                    IF HasNonPositiveDiff(high_mass_eeps_list(t11)) THEN 1
                    ELSE 0]
        spread(t4, heb_beg) ==
            verdict(add_agb_eeps(
              add_eep(add_eep(add_eep(add_eep(add_eep(
                add_eep(t4, "TPAGB", fin, "Last track value"),
                "SG_MAXL", Linspace(ms_to, heb_beg, 7, 1), message),
                "RG_MINL", Linspace(ms_to, heb_beg, 7, 2), message),
                "RG_BMP1", Linspace(ms_to, heb_beg, 7, 3), message),
                "RG_BMP2", Linspace(ms_to, heb_beg, 7, 4), message),
                "RG_TIP", Linspace(ms_to, heb_beg, 7, 5), message)))
        he(t4) == IF Ok(t4) THEN spread(t4, Ip(t4, "HE_BEG")) ELSE t4
        quiet(t3) ==
            he(IF Ok(t3)
               THEN add_quiesscent_he_eep_int(t3, At(icens(t3), 0), ms_to)
               ELSE t3)
        reset(t2) ==
            quiet(IF Ok(t2) /\ At(icens(t2), -1) = fin
                  THEN add_eep(t2, "YCEN_0.000",
                               (At(icens(t2), -2) + fin) \div 2,
                               "Reset between YCEN=0.005 and final point")
                  ELSE t2)
    IN  IF ~Ok(t) THEN t
        ELSE reset(add_cen_eeps(high_mass_ms(t), FALSE, ms_to))

\* add_high_mass_eeps up to line 347; val = 1 when the list eeps is not
\* strictly increasing
add_high_mass_eeps(t) ==
    LET fin == NData(t) - 1
        ms_to == first_xcen_zero(t)
        message == "linspace between MS_TO, HE_BEG"
        verdict(t11) ==
            IF ~Ok(t11) THEN t11
            ELSE [t11 EXCEPT !.val =
                    IF HasNonPositiveDiff(high_mass_eeps_list(t11)) THEN 1
                    ELSE 0]
        spread(t4, heb_beg) ==
            verdict(add_agb_eeps(
              add_eep(add_eep(add_eep(add_eep(add_eep(
                add_eep(t4, "TPAGB", fin, "Last track value"),
                "SG_MAXL", Linspace(ms_to, heb_beg, 7, 1), message),
                "RG_MINL", Linspace(ms_to, heb_beg, 7, 2), message),
                "RG_BMP1", Linspace(ms_to, heb_beg, 7, 3), message),
                "RG_BMP2", Linspace(ms_to, heb_beg, 7, 4), message),
                "RG_TIP", Linspace(ms_to, heb_beg, 7, 5), message)))
        he(t4) == IF Ok(t4) THEN spread(t4, Ip(t4, "HE_BEG")) ELSE t4
        quiet(t3) ==
            he(IF Ok(t3)
               THEN add_quiesscent_he_eep_int(t3, At(icens(t3), 0), ms_to)
               ELSE t3)
        reset(t2) ==
            quiet(IF Ok(t2) /\ At(t.ycen, At(icens(t2), -2)) = 0
                  THEN add_eep(t2, "YCEN_0.000",
                               (At(icens(t2), -2) + fin) \div 2,
                               "Reset between YCEN=0.005 and final point")
                  ELSE t2)
    IN  IF ~Ok(t) THEN t
        ELSE reset(add_cen_eeps(high_mass_ms(t), FALSE, ms_to))

\* lines 353-354: the last central-helium marker is at or past the last sample
high_mass_final_flag(t) ==
    IF Ok(t) /\ At(icens(t), -1) >= NData(t) - 1
    THEN [t EXCEPT !.flag = "final point on track is cut before final ycen"]
    ELSE t

\* ----------------------------------------------------------- low mass branch
\* config.max_age, the age given to MS_TO when the track never turns off
max_age == 1370

\* a variant of the low-mass branch that leaves the pending EEPs as they are
low_mass_eeps_no_reset(t) ==
    IF ~Ok(t) THEN t ELSE add_eep_with_age(t, "MS_TO", max_age)

\* define_eep_stages, lines 181-195, up to the final check
low_mass_eeps(t) ==
    IF ~Ok(t) THEN t
    ELSE add_eep_with_age(add_eeps_zero(t, please_define(t), "No MS_TO"),
                          "MS_TO", max_age)

\* ------------------------------------------------------------- add_ms_eeps
\* add_ms_eeps.delta_te_eeps(track, before, after), in 1/100 dex
delta_te_eeps(t, before, after) == Abs(At(t.logL, after) - At(t.logL, before))

\* lines 600-628: MS_TMIN; val is ms_tmin
add_ms_tmin(t) ==
    LET found(i, message) ==
            [add_eep(t, "MS_TMIN", i, message) EXCEPT !.val = i]
        set(f) == add_eep(f, "MS_TMIN", f.val, "Min logT by interpolation")
        choose(inds, xdata, m0) ==
            IF t.mass <= low_mass
            \* xcen = 0.3 makes xcen a local: track.data[0.3]
            THEN Raise(t, "IndexError")
            ELSE IF delta_te_eeps(t, m0, inds[1]) < 10
            THEN set(second_derivative(t, xdata, inds, FALSE))
            ELSE found(m0, "Min logT")
        coolest(inds, xdata) == choose(inds, xdata, inds[ArgMin(xdata) + 1])
        on(inds) ==
            IF Len(inds) = 0
            THEN found(0, "No points between MS_BEG and POINT_C")
            ELSE coolest(inds, Take(t.logT, inds))
        widen(inds0) ==
            on(IF t.mass <= 90 /\ t.mass >= 70 /\ Len(inds0) = 0
               THEN Arange(At(t.sptcri, sandro_key(t, "MS_BEG")), NData(t) - 1)
               ELSE inds0)
    IN  IF ~Ok(t) THEN t
        ELSE IF ~CanIndex(t, "MS_BEG", "POINT_C", TRUE)
             THEN Raise(t, "IndexError")
        ELSE widen(inds_between_ptcris(t, "MS_BEG", "POINT_C", TRUE))

\* lines 641-666: the peak searches for MS_TO; val is ms_to
ms_to_peaks(t, ms_to0, ms_tmin) ==
    LET kw == [pf_kw EXCEPT !.get_max = TRUE, !.sandro = FALSE,
                            !.more_than_one = "max of max",
                            !.parametric_interp = FALSE]
        third(b, delta_te) ==
            IF Ok(b) /\ (b.val = -1 \/ delta_te < 1)
            THEN peak_finder(b, t.logT, "MS_TMIN", "RG_BMP1",
                             [kw EXCEPT !.more_than_one = "last"])
            ELSE b
        second(a, delta_te) ==
            third(IF Ok(a) /\ (a.val = -1 \/ delta_te < 1)
                  THEN peak_finder(a, t.logT, "MS_TMIN", "RG_BMP1",
                                   [kw EXCEPT !.less_linear_fit = TRUE])
                  ELSE a,
                  delta_te)
        first(a) == second(a, delta_te_eeps(a, a.val, ms_tmin))
    IN  IF t.mass <= low_mass \/ delta_te_eeps(t, ms_to0, ms_tmin) < 1
        THEN first(peak_finder(t, t.logT, "MS_TMIN", "RG_BMP1", kw))
        ELSE [t EXCEPT !.val = ms_to0]

\* lines 630-679: MS_TO; val is ms_to
add_ms_to(t, ms_tmin) ==
    LET set(c) == add_eep(c, "MS_TO", c.val, "MS_TO")
        \* xcen is a local of add_ms_eeps that was never assigned here
        last(b) ==
            set(IF Ok(b) /\ b.val = -1 THEN Raise(b, "UnboundLocalError")
                ELSE b)
        interp(a, inds) ==
            last(IF Ok(a) /\ a.val = -1
                 THEN second_derivative(a, Take(t.logL, inds), inds, FALSE)
                 ELSE a)
        on(inds) ==
            interp(ms_to_peaks(t, inds[ArgMax(Take(t.logT, inds)) + 1],
                               ms_tmin),
                   inds)
        widen(between) ==
            on(IF Len(between) = 0 THEN Arange(ms_tmin, NData(t))
               ELSE between)
    IN  IF ~Ok(t) THEN t
        ELSE IF ms_tmin = 0
             THEN [add_eep(t, "MS_TO", 0, "no MS_TMIN") EXCEPT !.val = 0]
        ELSE widen(inds_between_ptcris(t, "MS_TMIN", "RG_BMP1", FALSE))

\* DefineEeps.add_ms_eeps
add_ms_eeps(t) ==
    LET fallback(t2) ==
            IF Ok(t2) /\ t2.val = 0
            THEN add_eep_with_age(
                   add_eep(t2, "MS_TMIN",
                           Ip(t2, "MS_BEG")
                             + (NData(t) - Ip(t2, "MS_BEG")) \div 2,
                           "Half way from MS_BEG to Fin"),
                   "MS_TO", max_age)
            ELSE t2
        to(t1) == fallback(IF Ok(t1) THEN add_ms_to(t1, t1.val) ELSE t1)
    IN  IF ~Ok(t) THEN t ELSE to(add_ms_tmin(t))

\* ---------------------------------------------------------- add_sg_rg_eeps
\* DefineEeps.add_rg_minl_eep; val is min_l
add_rg_minl_eep(t, eep1, eep2, more_than_one) ==
    LET kw == [pf_kw EXCEPT !.sandro = FALSE,
                            !.more_than_one = more_than_one]
        set(c) == add_eep(c, "RG_MINL", c.val, "Min logL")
        third(b) ==
            set(IF Ok(b) /\ b.val = -1
                THEN peak_finder(b, t.logL, eep1, eep2,
                                 [kw EXCEPT !.parametric_interp = FALSE,
                                            !.less_linear_fit = FALSE])
                ELSE b)
        second(a) ==
            third(IF Ok(a) /\ (a.val = -1 \/ t.mass < low_mass)
                  THEN peak_finder(a, t.logL, eep1, eep2,
                                   [kw EXCEPT !.parametric_interp = FALSE,
                                              !.less_linear_fit = TRUE])
                  ELSE a)
    IN  IF ~Ok(t) THEN t
        ELSE second(peak_finder(t, t.logL, eep1, eep2, kw))

\* Interpolator.remove_dupes(x, y, '', just_two=True): the positions
\* (0-based) of the points that do not repeat the point before them
remove_dupes(x, y) ==
    Filter([k \in 1..Len(x) |-> k - 1],
           {k - 1 : k \in {j \in 1..Len(x) :
                             j = 1 \/ x[j] # x[j - 1] \/ y[j] # y[j - 1]}})

Sum(f, n) == LET S[k \in 0..n] == IF k = 0 THEN 0 ELSE S[k - 1] + f[k] IN S[n]

\* ydata - (m * xdata + bb) for the least-squares line of np.polyfit, up
\* to a positive factor and a constant
PolyResidual(xdata, ydata) ==
    LET n == Len(xdata)
        line(sxx, sxy) == [k \in 1..n |-> sxx * ydata[k] - sxy * xdata[k]]
        moments(sx, sy) ==
            line(n * Sum([k \in 1..n |-> xdata[k] * xdata[k]], n) - sx * sx,
                 n * Sum([k \in 1..n |-> xdata[k] * ydata[k]], n) - sx * sy)
    IN  moments(Sum(xdata, n), Sum(ydata, n))

\* lines 869-883: SG_MAXL from the trend-removed logL; val is max_l
hacked_sg_maxl(t, eep2) ==
    LET top(inds, non_dupes, xdata, maxs) ==
            IF Len(maxs) = 0 THEN Raise(t, "ValueError")
            ELSE [t EXCEPT !.val =
                    At(inds, At(non_dupes,
                                At(maxs, ArgMax(Take(xdata, maxs)))))]
        fit(inds, non_dupes, xdata, ydata) ==
            top(inds, non_dupes, xdata,
                find_peaks(PolyResidual(xdata, ydata), TRUE))
        dedupe(inds, lt, ll, non_dupes) ==
            fit(inds, non_dupes, Take(lt, non_dupes), Take(ll, non_dupes))
        cols(inds, lt, ll) == dedupe(inds, lt, ll, remove_dupes(lt, ll))
        on(inds) ==
            IF Len(inds) = 0 THEN Raise(t, "TypeError")
            ELSE cols(inds, Take(t.logT, inds), Take(t.logL, inds))
    IN  on(inds_between_ptcris(t, "MS_TO", eep2, FALSE))

\* DefineEeps.add_sg_maxl_eep; val is max_l
add_sg_maxl_eep(t, eep2) ==
    LET kw == [pf_kw EXCEPT !.get_max = TRUE, !.sandro = FALSE,
                            !.more_than_one =
                              IF eep2 # "RG_MINL" THEN "last" ELSE "max of max",
                            !.parametric_interp = FALSE,
                            !.less_linear_fit = FALSE]
        rg_minl == Ip(t, "RG_MINL")
        found(c, max_l, message) ==
            [add_eep(c, "SG_MAXL", max_l, message) EXCEPT !.val = max_l]
        set(c) ==
            IF ~Ok(c) THEN c
            ELSE found(c, IF c.val = Ip(t, "MS_TO") THEN -1 ELSE c.val,
                       "SG_MAXL")
        hack(b) ==
            set(IF Ok(b) /\ Abs(rg_minl - b.val) < 10
                THEN hacked_sg_maxl(b, eep2)
                ELSE b)
        second(a) ==
            hack(IF Ok(a) /\ (a.val = -1 \/ Abs(rg_minl - a.val) < 10)
                 THEN peak_finder(a, t.logL, "MS_TO", eep2,
                                  [kw EXCEPT !.less_linear_fit = TRUE])
                 ELSE a)
    IN  IF ~Ok(t) THEN t
        ELSE IF t.mass > inte_mass
             THEN found(t,
                        ArgNearest([k \in 1..NData(t) |-> 2 * t.age[k]],
                                   At(t.age, Ip(t, "MS_TO"))
                                     + At(t.age, Ip(t, "RG_MINL"))),
                        "Set SG_MAXL to be mean age between MS_TO and RG_MINL")
        ELSE second(peak_finder(t, t.logL, "MS_TO", eep2, kw))

\* add_sg_rg_eeps.check_minl: True in [...]
check_minl(t, imin_l, msto) ==
    \/ imin_l - msto < 50
    \/ imin_l = -1
    \/ Abs(imin_l - At(t.sptcri, 7)) > 100
    \/ At(t.xcen, imin_l) > 0

more_than_ones == <<"last", "first", "min of min">>

\* the first while loop of add_sg_rg_eeps; val is <<imin_l, i>>
RECURSIVE minl_loop(_, _, _, _)
minl_loop(t, imin_l, msto, i) ==
    LET next(f) == minl_loop(f, f.val, msto, i + 1)
    IN  IF ~Ok(t) THEN t
        ELSE IF check_minl(t, imin_l, msto) /\ i # 3
             THEN next(add_rg_minl_eep(t, "MS_TO", "RG_BMP1",
                                       more_than_ones[i + 1]))
        ELSE [t EXCEPT !.val = <<imin_l, i>>]

\* the second while loop of add_sg_rg_eeps ("i == 0" leaves i as it is);
\* val is imin_l
RECURSIVE maxl_first_loop(_, _, _, _)
maxl_first_loop(t, imin_l, msto, i) ==
    LET next(f) == maxl_first_loop(f, f.val, msto, i + 1)
    IN  IF ~Ok(t) THEN t
        ELSE IF check_minl(t, imin_l, msto) /\ i # 3
             THEN next(add_rg_minl_eep(add_sg_maxl_eep(t, "RG_BMP1"),
                                       "SG_MAXL", "RG_BMP1",
                                       more_than_ones[i + 1]))
        ELSE [t EXCEPT !.val = imin_l]

\* DefineEeps.add_sg_rg_eeps up to line 759; val is imax_l
add_sg_rg_eeps(t) ==
    LET msto == Ip(t, "MS_TO")
        base(x) ==
            [add_eep(x, "RG_MINL", At(t.sptcri, 7),
                     "Set RG_MINL to Sandro's RG_BASE")
               EXCEPT !.val = At(t.sptcri, 7)]
        retry(t6) ==
            IF Ok(t6) /\ t6.val <= 0 THEN add_sg_maxl_eep(t6, "RG_BMP1")
            ELSE t6
        passed(t4) ==
            retry(add_sg_maxl_eep(
                    IF Ok(t4) /\ ~check_minl(t4, t4.val, msto) THEN base(t4)
                    ELSE t4,
                    "RG_MINL"))
        failed(t3) ==
            passed(IF Ok(t3) /\ check_minl(t3, t3.val, msto) THEN base(t3)
                   ELSE t3)
        second(t2) ==
            failed(IF Ok(t2)
                   THEN maxl_first_loop(t2, t2.val[1], msto, t2.val[2])
                   ELSE t2)
        first(t1) ==
            second(IF Ok(t1) THEN minl_loop(t1, t1.val, msto, 0) ELSE t1)
    IN  IF ~Ok(t) THEN t
        ELSE IF Len(t.sptcri) <= 7
             THEN Raise(add_rg_minl_eep(t, "MS_TO", "RG_BMP1", "last"),
                        "IndexError")
        ELSE first(add_rg_minl_eep(t, "MS_TO", "RG_BMP1", "last"))

\* -------------------------------------------------------- define_eep_stages
\* what a caller can see of the track's annotations
Annotations(t) == [iptcri |-> t.iptcri, info |-> t.info, flag |-> t.flag]

\* the track as an action leaves it: the scratch value is dropped
Settle(t) == [t EXCEPT !.val = 0]

\* a step leaves the track t and goes on at next, or ends in an error
Step(t, next) ==
    /\ track' = Settle(t)
    /\ pc' = IF Ok(t) THEN next ELSE "error"

\* a step whose successor depends on the value it returned
StepIf(t, v, next1, next2) ==
    /\ track' = Settle(t)
    /\ pc' = IF ~Ok(t) THEN "error" ELSE IF t.val = v THEN next1 ELSE next2

\* lines 145-149: reset info, set every pending EEP to 0
DesInit ==
    /\ pc = "define_eep_stages"
    /\ entry' = [call |-> "define_eep_stages", at |-> Annotations(track)]
    /\ Step(add_eeps_zero([track EXCEPT !.info = <<>>, !.log = <<>>],
                          please_define(track), "no info"),
            "des_agb")
    /\ UNCHANGED <<ptcri, ret, run, prev>>

\* lines 151-153: TP-AGB tracks
DesAgb ==
    /\ pc = "des_agb"
    /\ Step(IF track.agb THEN add_tpagb_eeps(track) ELSE track, "des_hb")
    /\ UNCHANGED <<ptcri, ret, run, entry, prev>>

\* DefineEeps.hb_eeps
hb_eeps(t) == add_agb_eeps(add_cen_eeps(add_hb_beg(t), TRUE, -1))

\* lines 155-158: ZAHB tracks
DesHb ==
    /\ pc = "des_hb"
    /\ track.hb
    /\ Step(hb_eeps(track), "check")
    /\ ret' = "done"
    /\ UNCHANGED <<ptcri, run, entry, prev>>

\* line 160
DesCheckPmsBeg ==
    /\ pc = "des_hb"
    /\ ~track.hb
    /\ Step(check_pms_beg(track), "des_ms_beg")
    /\ UNCHANGED <<ptcri, ret, run, entry, prev>>

\* lines 162-173
DesCheckMsBeg ==
    /\ pc = "des_ms_beg"
    /\ Step(check_ms_beg(track), "des_regime")
    /\ UNCHANGED <<ptcri, ret, run, entry, prev>>

\* lines 175-177 and add_high_mass_eeps up to its monotonicity test
DesHighMass ==
    /\ pc = "des_regime"
    /\ track.mass >= high_mass
    /\ StepIf(add_high_mass_eeps(track), 1, "check", "hm_flag")
    /\ ret' = "hm_flag"
    /\ UNCHANGED <<ptcri, run, entry, prev>>

\* add_high_mass_eeps lines 353-356, then line 178
HmFlag ==
    /\ pc = "hm_flag"
    /\ track' = high_mass_final_flag(track)
    /\ pc' = "check"
    /\ ret' = "done"
    /\ UNCHANGED <<ptcri, run, entry, prev>>

\* lines 180-195: tracks without an MS_TO in the reference table
DesLowMass ==
    /\ pc = "des_regime"
    /\ track.mass < high_mass
    /\ Len(track.sptcri) <= 6
    /\ Step(low_mass_eeps(track), "check")
    /\ ret' = "done"
    /\ UNCHANGED <<ptcri, run, entry, prev>>

\* line 198
DesMsEeps ==
    /\ pc = "des_regime"
    /\ track.mass < high_mass
    /\ Len(track.sptcri) > 6
    /\ Step(add_ms_eeps(track), "des_he")
    /\ UNCHANGED <<ptcri, ret, run, entry, prev>>

\* len(np.nonzero(track.sptcri != 0)[0])
nsandro_pts(t) == CountNonZero(t.sptcri)

\* lines 200-212: HE_BEG and the central-helium EEPs
he_eeps(t) ==
    LET zero(t3, ihe_beg) ==
            IF Ok(t3) /\ (ihe_beg = 0 \/ nsandro_pts(t) <= 10)
            THEN add_eeps_zero(t3, SubSeq(please_define(t), 6,
                                      Len(please_define(t))),
                               "no He EEPs")
            ELSE t3
        quiet(t3) == zero(t3, Ip(t3, "HE_BEG"))
        cen(t2) ==
            IF Ok(t2) /\ At(icens(t2), 0) # 0
            THEN quiet(add_quiesscent_he_eep(t2, "YCEN_0.550", "RG_TIP"))
            ELSE zero(t2, 0)
    IN  cen(add_cen_eeps(add_eep(t, "HE_BEG", 0, "Initializing"), FALSE, -1))

DesHeEeps ==
    /\ pc = "des_he"
    /\ Step(he_eeps(track), "des_sg_rg")
    /\ UNCHANGED <<ptcri, ret, run, entry, prev>>

\* line 214: add_sg_rg_eeps, whose last lines check monotonicity when
\* SG_MAXL was not found
DesSgRg ==
    /\ pc = "des_sg_rg"
    /\ StepIf(add_sg_rg_eeps(track), -1, "check", "des_agb_eeps")
    /\ ret' = "des_agb_eeps"
    /\ UNCHANGED <<ptcri, run, entry, prev>>

\* lines 215-216
DesAgbEeps ==
    /\ pc = "des_agb_eeps"
    /\ Step(add_agb_eeps(track), "check")
    /\ ret' = "done"
    /\ UNCHANGED <<ptcri, run, entry, prev>>

\* a call of check_for_monotonic_increase; on a violation it stops in the
\* debugger
Check ==
    /\ pc = "check"
    /\ StepIf(check_for_monotonic_increase(track), 1, "pdb", ret)
    /\ UNCHANGED <<ptcri, ret, run, entry, prev>>

\* pdb.set_trace(): the operator continues
PdbContinue ==
    /\ pc = "pdb"
    /\ pc' = ret
    /\ UNCHANGED <<track, ptcri, ret, run, entry, prev>>

\* pdb.set_trace(): the operator quits, or there is no terminal to read
PdbQuit ==
    /\ pc = "pdb"
    /\ track' = Raise(track, "BdbQuit")
    /\ pc' = "error"
    /\ UNCHANGED <<ptcri, ret, run, entry, prev>>

\* define_eep_stages is called again on the track it has processed
Rerun ==
    /\ pc = "done"
    /\ run < MaxRuns
    /\ Len(track.iptcri) > 0
    /\ entry.call = "define_eep_stages"
    /\ run' = run + 1
    /\ prev' = track.iptcri
    /\ pc' = "define_eep_stages"
    /\ UNCHANGED <<track, ptcri, ret, entry>>

\* InDevelopment().check_sandros_eeps(track) on a track that
\* define_eep_stages has returned
CheckSandros ==
    /\ pc = "done"
    /\ entry.call = "define_eep_stages"
    /\ entry' = [call |-> "check_sandros_eeps", at |-> Annotations(track)]
    /\ Step(check_sandros_eeps(track), "done")
    /\ UNCHANGED <<ptcri, ret, run, prev>>

\* ----------------------------------------------------------------- the runs

\* tracks that differ in how the reference table matches them
LoadParams ==
    {[Default EXCEPT !.mass = m, !.nz = nz, !.cut = cut, !.flag = fl,
                     !.has_mass = hm, !.a0 = a0] :
       m \in {200, 3000}, nz \in {4, 5, 6, 7, 8, 11, 12, 15},
       cut \in {0, 1, 2}, fl \in {None, "failed to load"},
       hm \in BOOLEAN, a0 \in {5, 31}}

\* high-mass tracks
HighParams ==
    {[Default EXCEPT !.mass = 3000, !.Z = z, !.xz = xz, !.yk = yk,
                     !.y0 = y0, !.lk = lk] :
       z \in {1, 10, 20}, xz \in {7, 9, 1000}, yk \in {"full", "cut"},
       y0 \in {14, NSamples - 8}, lk \in {"wavy", "early"}}

\* low- and intermediate-mass tracks
InterParams ==
    {[Default EXCEPT !.mass = m, !.xz = xz, !.yk = yk, !.lk = lk,
                     !.tk = tk, !.nz = nz] :
       m \in {100, 200, 1500}, xz \in {9, 1000},
       yk \in {"full", "cut", "flare"}, lk \in {"mono", "wavy", "early"},
       tk \in {"flat", "vee"}, nz \in {7, 11, 15}}

\* horizontal-branch tracks
HbParams ==
    {[Default EXCEPT !.hb = TRUE, !.mass = 60, !.he1 = he1, !.nz = nz,
                     !.cut = cut, !.y0 = y0, !.yk = yk, !.a0 = a0] :
       he1 \in {0, 2}, nz \in {1, 2}, cut \in {0, 1}, y0 \in {0, 3},
       yk \in {"full", "fast", "cut", "flare"}, a0 \in {5, 31}}

\* TP-AGB tracks
AgbParams ==
    {[Default EXCEPT !.agb = TRUE, !.mass = m, !.steps = st, !.nz = nz] :
       m \in {200, 3000}, nz \in {6, 15},
       st \in {{}, {NSamples - 6}, {NSamples - 6, NSamples - 3}}}

\* intermediate-mass tracks with two temperature maxima after MS_TMIN
TwinParams ==
    {[Default EXCEPT !.mass = m, !.tk = "twin", !.lk = lk] :
       m \in {200, 1500}, lk \in {"level", "wavy"}}

\* high-mass tracks whose central helium drops to 0 without passing 0.005
\* ("fast") or passes 0.550 between two samples ("skip")
FastParams ==
    {[Default EXCEPT !.mass = 3000, !.Z = z, !.yk = yk, !.y0 = y0] :
       z \in {10, 20}, yk \in {"fast", "skip"}, y0 \in {14, NSamples - 8}}

\* horizontal-branch tracks that end in thermal pulses
PulseParams ==
    {[Default EXCEPT !.hb = TRUE, !.mass = 60, !.nz = 2, !.y0 = 3,
                     !.ak = "late", !.pk = pk] :
       pk \in {"tp1", "tp2", "tp3", "tp4"}}

\* tracks whose central helium is below 0.55 where the search for the
\* central-helium EEPs starts
EarlyParams == {[Default EXCEPT !.mass = m, !.y0 = 8] : m \in {200, 3000}}

\* tracks cut one model before a reference point of the table
OverParams ==
    {[Default EXCEPT !.mass = m, !.nz = 11, !.cut = 1, !.over = TRUE] :
       m \in {200, 3000}}

\* tracks with a long sub-giant branch
LongParams ==
    {[Default EXCEPT !.mass = m, !.extra = 60, !.lk = "long", !.tk = "slow",
                     !.y0 = 74, !.hd = 74] : m \in {200, 1500}}

Params ==
    LoadParams \cup HighParams \cup InterParams \cup HbParams \cup AgbParams
      \cup TwinParams \cup FastParams \cup PulseParams \cup EarlyParams
      \cup OverParams \cup LongParams

Init ==
    /\ \E p \in Params :
         /\ track = NewTrack(p)
         /\ ptcri = NewPtcri(p)
    /\ pc = "load_critical_points"
    /\ ret = "done"
    /\ run = 1
    /\ entry = [call |-> "load_critical_points", at |-> Annotations(track)]
    /\ prev = <<>>

Next ==
    \/ LcpFlagged
    \/ LcpNoMass
    \/ LcpMatch
    \/ LcpInit
    \/ DesInit
    \/ DesAgb
    \/ DesHb
    \/ DesCheckPmsBeg
    \/ DesCheckMsBeg
    \/ DesHighMass
    \/ HmFlag
    \/ DesLowMass
    \/ DesMsEeps
    \/ DesHeEeps
    \/ DesSgRg
    \/ DesAgbEeps
    \/ Check
    \/ PdbContinue
    \/ PdbQuit
    \/ Rerun

Spec == Init /\ [][Next]_vars

\* the program with a caller of the unfinished check_sandros_eeps
SandroNext == Next \/ CheckSandros

SandroSpec == Init /\ [][SandroNext]_vars

\* ------------------------------------------------ two tracks, one table
\* In this specification load_critical_points runs on two tracks that share
\* one table and one engine. track is the pair of tracks, prev the pair of
\* their positions in load_critical_points, ptcri the table with one entry
\* per mass, entry the parameters of the two tracks; pc = "pair" until one
\* of the two calls define_eep_stages, which goes on as in Spec on that
\* track alone (define_eep_stages reads the track and the catalogue only).
\* The steps are the sections of load_critical_points between its accesses
\* to the table.

\* a variant of the lookup that finds the same entry for every mass
mass_key_any(ts, i) == 1

\* ptcri.data_dict['M%.3f' % track.mass]: the entry of the i-th track's mass
mass_key(ts, i) == IF ts[1].mass = ts[i].mass THEN 1 ELSE i

\* the table entry as track i sees it
PairEntry(i) ==
    [has_mass |-> ptcri.has_mass[mass_key(track, i)],
     data_dict |-> ptcri.data_dict[mass_key(track, i)],
     fixed |-> ptcri.fixed[mass_key(track, i)]]

\* pairs of tracks of one set: the masses differ, both are of one kind
PairParams ==
    {<<Default, [Default EXCEPT !.mass = 3000]>>,
     <<[Default EXCEPT !.nz = 4, !.cut = 1],
       [Default EXCEPT !.mass = 3000, !.cut = 1]>>,
     <<[Default EXCEPT !.nz = 4, !.cut = 1],
       [Default EXCEPT !.mass = 300, !.nz = 6, !.cut = 1]>>,
     <<[Default EXCEPT !.nz = 6],
       [Default EXCEPT !.mass = 3000, !.nz = 8, !.cut = 2]>>,
     <<[Default EXCEPT !.flag = "failed to load"],
       [Default EXCEPT !.mass = 3000, !.has_mass = FALSE]>>,
     <<[Default EXCEPT !.nz = 4, !.cut = 1],
       [Default EXCEPT !.mass = 3000, !.Z = 10, !.yk = "fast",
                       !.y0 = NSamples - 8]>>,
     <<[Default EXCEPT !.hb = TRUE, !.mass = 60, !.nz = 2, !.cut = 1, !.y0 = 3],
       [Default EXCEPT !.hb = TRUE, !.mass = 70, !.nz = 2, !.y0 = 0]>>}

PairInit ==
    /\ \E ps \in PairParams :
         /\ track = <<NewTrack(ps[1]), NewTrack(ps[2])>>
         /\ ptcri = [has_mass |-> <<ps[1].has_mass, ps[2].has_mass>>,
                     data_dict |-> <<NewPtcri(ps[1]).data_dict,
                                     NewPtcri(ps[2]).data_dict>>,
                     fixed |-> <<FALSE, FALSE>>]
         /\ entry = [call |-> "load_critical_points", params |-> ps,
                     which |-> 0]
    /\ pc = "pair"
    /\ ret = "done"
    /\ run = 1
    /\ prev = <<"load_critical_points", "load_critical_points">>

\* lines 951-952
PairFlagged(i) ==
    /\ pc = "pair"
    /\ prev[i] = "load_critical_points"
    /\ track[i].flag # None
    /\ prev' = [prev EXCEPT ![i] = "done"]
    /\ UNCHANGED <<track, ptcri, pc, ret, run, entry>>

\* lines 954-989: the engine keeps the table; the mass is not in it
PairNoMass(i) ==
    /\ pc = "pair"
    /\ prev[i] = "load_critical_points"
    /\ track[i].flag = None
    /\ ~PairEntry(i).has_mass
    /\ track' = [track EXCEPT ![i].flag = "no ptcri mass"]
    /\ prev' = [prev EXCEPT ![i] = "done"]
    /\ UNCHANGED <<ptcri, pc, ret, run, entry>>

\* lines 954-1001: the engine keeps the table; match, repair or mismatch
PairMatch(i) ==
    /\ pc = "pair"
    /\ prev[i] = "load_critical_points"
    /\ track[i].flag = None
    /\ PairEntry(i).has_mass
    /\ track' = [track EXCEPT ![i] = match_sptcri(@, PairEntry(i).data_dict)]
    /\ ptcri' = [ptcri EXCEPT
                   !.data_dict[mass_key(track, i)] =
                       match_ptcri(track[i], PairEntry(i)).data_dict,
                   !.fixed[mass_key(track, i)] =
                       match_ptcri(track[i], PairEntry(i)).fixed]
    /\ prev' = [prev EXCEPT ![i] = "lcp_init"]
    /\ UNCHANGED <<pc, ret, run, entry>>

\* lines 1003-1025
PairInitIptcri(i) ==
    /\ pc = "pair"
    /\ prev[i] = "lcp_init"
    /\ track' = [track EXCEPT
                   ![i].iptcri = InitIptcri(track[i], PairEntry(i).data_dict)]
    /\ prev' = [prev EXCEPT ![i] = "define_eep_stages"]
    /\ UNCHANGED <<ptcri, pc, ret, run, entry>>

\* lines 1027-1029: define_eep_stages on the i-th track
PairCall(i) ==
    /\ pc = "pair"
    /\ prev[i] = "define_eep_stages"
    /\ track' = track[i]
    /\ pc' = "define_eep_stages"
    /\ prev' = <<>>
    /\ entry' = [entry EXCEPT !.which = i]
    /\ UNCHANGED <<ptcri, ret, run>>

PairNext ==
    \/ \E i \in 1..2 : PairFlagged(i)
    \/ \E i \in 1..2 : PairNoMass(i)
    \/ \E i \in 1..2 : PairMatch(i)
    \/ \E i \in 1..2 : PairInitIptcri(i)
    \/ \E i \in 1..2 : PairCall(i)
    \/ DesInit
    \/ DesAgb
    \/ DesHb
    \/ DesCheckPmsBeg
    \/ DesCheckMsBeg
    \/ DesHighMass
    \/ HmFlag
    \/ DesLowMass
    \/ DesMsEeps
    \/ DesHeEeps
    \/ DesSgRg
    \/ DesAgbEeps
    \/ Check
    \/ PdbContinue
    \/ PdbQuit
    \/ Rerun

PairSpec == PairInit /\ [][PairNext]_vars

\* ------------------------------------------------------------------- claims
\* define_eep_stages was entered and has returned
Returned == pc = "done" /\ entry.call = "define_eep_stages"

\* the positive entries of s, in order, are strictly increasing
Increasing(s) ==
    \A i, j \in DOMAIN s : (i < j /\ s[i] > 0 /\ s[j] > 0) => s[i] < s[j]

\* C1: when define_eep_stages has returned, in any regime, the track is
\* flagged or the entries of iptcri that are > 0, in EEP-name order, are
\* strictly increasing.
C1_FlaggedOrIncreasing ==
    Returned => (track.flag # None \/ Increasing(track.iptcri))

\* an unflagged intermediate-mass track returned with its EEPs found
C1_Witness ==
    /\ Returned
    /\ track.flag = None
    /\ ~track.hb
    /\ track.mass < high_mass
    /\ Ip(track, "SG_MAXL") > 0
    /\ Ip(track, "YCEN_0.000") > 0

\* C2 (as the specification states it): when define_eep_stages has returned,
\* no entry of iptcri is negative.
C2_NoNegativeIndex ==
    Returned => \A k \in DOMAIN track.iptcri : track.iptcri[k] >= 0

\* C3 (as the specification states it): a call that found the track flagged,
\* load_critical_points or define_eep_stages, has left iptcri, info and flag
\* as they were.
C3_FlaggedIsNoOp ==
    (pc = "done" /\ entry.at.flag # None) => Annotations(track) = entry.at

\* C4 (as the specification states it): no call ends in an uncaught error or
\* stops in the debugger.
C4_NormalReturn == pc \notin {"error", "pdb"}

\* C5 (as the specification states it): a track flagged for a mismatch with
\* the reference table never enters define_eep_stages.
C5_MismatchHalts ==
    track.flag = "ptcri file does not match track, not enough MODEs"
      => entry.call # "define_eep_stages"

\* C6: when the matched reference indices are exactly one fewer than the
\* non-zero reference entries, load_critical_points appends the last sample
\* index to sptcri and leaves the flag unset.
C6_RepairAppendsLast ==
    [][(/\ pc = "load_critical_points"
        /\ track.flag = None
        /\ ptcri.has_mass
        /\ CountNonZero(ptcri.data_dict)
             - Len(MatchModes(track.MODE, ptcri.data_dict)) = 1)
       => /\ track'.sptcri = Append(MatchModes(track.MODE, ptcri.data_dict),
                                    NData(track) - 1)
          /\ track'.flag = None]_vars

\* the repair was taken on a table with entries past the track's end
C6_Witness ==
    /\ pc = "lcp_init"
    /\ track.flag = None
    /\ At(track.sptcri, -1) = NData(track) - 1
    /\ At(ptcri.data_dict, -1) = NData(track) + 1
    /\ \E k \in DOMAIN ptcri.data_dict : ptcri.data_dict[k] > NData(track) + 1

\* the slack, in samples, within which a misplaced EEP may be moved
SearchRadius == 9

\* the entries s can be placed strictly increasing after last, each within
\* SearchRadius of where it is and inside a track of n samples
RECURSIVE Placeable(_, _, _)
Placeable(s, last, n) ==
    LET lo == IF Head(s) - SearchRadius > last THEN Head(s) - SearchRadius
              ELSE last + 1
        hi == IF Head(s) + SearchRadius < n - 1 THEN Head(s) + SearchRadius
              ELSE n - 1
    IN  s = <<>> \/ (lo <= hi /\ Placeable(Tail(s), lo, n))

RepairExists(t) == Placeable(Positive(t.iptcri), 0, NData(t))

\* C7 (as the specification states it): a track is flagged for its EEP
\* order only if no repositioning within the search radius exists.
C7_FlaggedOnlyIfNoRepair ==
    track.flag = "eeps not monotonically increasing" => ~RepairExists(track)

\* C7 (amended): when the check finds the order violated on an unflagged
\* track it flags the track at once and leaves iptcri as it is: no
\* repositioning is attempted.
C7_FlagsAtOnce ==
    [][(pc = "check" /\ track.flag = None /\ ~Increasing(track.iptcri))
       => /\ track'.flag = "eeps not monotonically increasing"
          /\ track'.iptcri = track.iptcri]_vars

\* the check has just flagged a track whose EEPs could have been repositioned
C7_Witness ==
    /\ pc = "pdb"
    /\ track.flag = "eeps not monotonically increasing"
    /\ ~Increasing(track.iptcri)
    /\ RepairExists(track)

\* C8: a second run of define_eep_stages on a track it has processed leaves
\* iptcri identical to the result of the run before.
C8_RerunIdentical == (Returned /\ run > 1) => track.iptcri = prev

\* a second run has returned on an unflagged track with its EEPs found
C8_Witness ==
    /\ Returned
    /\ run > 1
    /\ track.flag = None
    /\ Ip(track, "MS_TO") > 0
    /\ track.iptcri = prev

\* C9: when define_eep_stages has returned, the last thing it did to the
\* track's EEPs was check_for_monotonic_increase: no EEP assignment or
\* feature search follows the last check.
C9_CheckIsLast ==
    Returned => (Len(track.log) > 0 /\ track.log[Len(track.log)].op = "check")

\* a high-mass track returned after its EEPs were assigned and checked
C9_Witness ==
    /\ Returned
    /\ track.mass >= high_mass
    /\ \E k \in DOMAIN track.log :
         track.log[k].op = "add_eep" /\ track.log[k].eep = "AGB_LY2"
    /\ track.log[Len(track.log)].op = "check"

\* C10: for a high-mass track, MS_TO is the smallest sample index at which
\* the central hydrogen fraction is 0.
C10_FirstXcenZero ==
    (Returned /\ ~track.hb /\ track.mass >= high_mass)
      => /\ At(track.xcen, Ip(track, "MS_TO")) = 0
         /\ \A i \in 0..(Ip(track, "MS_TO") - 1) : At(track.xcen, i) # 0

\* a high-mass track returned with MS_TO at a zero that is followed by more
C10_Witness ==
    /\ Returned
    /\ ~track.hb
    /\ track.mass >= high_mass
    /\ Ip(track, "MS_TO") > 0
    /\ At(track.xcen, Ip(track, "MS_TO") + 1) = 0

\* the k-th central-helium EEP of the result r, searched from sample lo on:
\* a sample of the window nearest its target when one lies within tol of
\* it, 0 when none does
CenNearest(r, k, lo) ==
    LET x == YcenValues[cens(r)[k]]
        W == lo..(NData(r) - 1)
        placed(v) ==
            IF \E i \in W : Abs(At(r.ycen, i) - x) <= tol
            THEN /\ v \in W
                 /\ \A i \in W : Abs(At(r.ycen, v) - x) <= Abs(At(r.ycen, i) - x)
            ELSE v = 0
    IN  placed(Ip(r, YcenNames[cens(r)[k]]))

\* every central-helium EEP of r is placed, each window beginning after the
\* EEP before it
CenPlaced(r, istart) ==
    Ok(r) => \A k \in 1..Len(cens(r)) :
               CenNearest(r, k, IF k = 1 THEN istart
                                ELSE Ip(r, YcenNames[cens(r)[k - 1]]) + 1)

\* C11: wherever define_eep_stages calls add_cen_eeps (intermediate-mass,
\* horizontal-branch and high-mass tracks), each YCEN_x EEP it assigns is a
\* sample of its search window whose central helium is nearest x, and is 0
\* when the nearest value differs from x by more than tol.
C11_NearestWithinTol ==
    /\ pc = "des_he"
         => CenPlaced(add_cen_eeps(add_eep(track, "HE_BEG", 0, "Initializing"),
                                   FALSE, -1),
                      Ip(track, "RG_TIP"))
    /\ (pc = "des_hb" /\ track.hb)
         => CenPlaced(add_cen_eeps(add_hb_beg(track), TRUE, -1), 0)
    /\ (pc = "des_regime" /\ track.mass >= high_mass)
         => CenPlaced(add_cen_eeps(high_mass_ms(track), FALSE,
                                   first_xcen_zero(track)),
                      first_xcen_zero(track))

\* add_cen_eeps is about to find YCEN_0.550 and to miss YCEN_0.000
C11_Witness ==
    LET found(r) ==
            Ok(r) /\ Ip(r, "YCEN_0.550") > 0 /\ Ip(r, "YCEN_0.000") = 0
    IN  /\ pc = "des_he"
        /\ found(add_cen_eeps(add_eep(track, "HE_BEG", 0, "Initializing"),
                              FALSE, -1))

\* C12 (as the specification states it): for an AGB-type track, nothing is
\* searched or assigned after add_tpagb_eeps has set its three markers.
C12_AgbStopsAfterMarkers ==
    track.agb
      => \A k \in DOMAIN track.log :
           (track.log[k].eep = "TPAGB2" /\ track.log[k].ind > 0)
             => \A j \in DOMAIN track.log :
                  j > k => track.log[j].op = "check"

\* C13 (as the specification states it): once define_eep_stages has found
\* no fifth reference index (it noted 'Incomplete track?'), the track is
\* flagged and the call has returned.
C13_MissingSignalFlagsAndStops ==
    (/\ entry.call = "define_eep_stages"
     /\ "MS_BEG" \in DOMAIN track.info
     /\ track.info["MS_BEG"] = "Incomplete track?")
      => (track.flag # None /\ pc = "done")

\* the position in the log of the first assignment of the EEP name made
\* after the pending EEPs were set to 0 at entry, 0 when there is none
FirstAssigned(t, name) ==
    LET S == {k \in DOMAIN t.log :
                /\ k > Len(please_define(t))
                /\ t.log[k].op = "add_eep"
                /\ t.log[k].eep = name}
    IN  IF S = {} THEN 0 ELSE CHOOSE k \in S : \A j \in S : k <= j

\* a high-mass track on which both MS_BEG and MS_TMIN have been assigned
BothSearched ==
    /\ entry.call = "define_eep_stages"
    /\ ~track.hb
    /\ track.mass >= high_mass
    /\ FirstAssigned(track, "MS_BEG") > 0
    /\ FirstAssigned(track, "MS_TMIN") > 0

\* C14 (as the specification states it): at low metallicity MS_TMIN is
\* searched before MS_BEG, at high metallicity MS_BEG before MS_TMIN.
C14_LowZTminFirst ==
    BothSearched
      => IF track.Z > 10
         THEN FirstAssigned(track, "MS_BEG") < FirstAssigned(track, "MS_TMIN")
         ELSE FirstAssigned(track, "MS_TMIN") < FirstAssigned(track, "MS_BEG")

\* C14 (amended): a high-mass track with Z > 0.01 has MS_TMIN searched and
\* assigned before MS_BEG; one with Z <= 0.01 has MS_BEG searched and
\* assigned before MS_TMIN.
C14_HighZTminFirst ==
    BothSearched
      => IF track.Z > 10
         THEN FirstAssigned(track, "MS_TMIN") < FirstAssigned(track, "MS_BEG")
         ELSE FirstAssigned(track, "MS_BEG") < FirstAssigned(track, "MS_TMIN")

\* a track of Z = 0.02 on which MS_TMIN was assigned first
C14_Witness ==
    /\ BothSearched
    /\ track.Z > 10
    /\ FirstAssigned(track, "MS_TMIN") < FirstAssigned(track, "MS_BEG")
    /\ Ip(track, "MS_BEG") > 0

\* a track of Z = 0.01 on which MS_BEG was assigned first
C14_WitnessLowZ ==
    /\ BothSearched
    /\ track.Z = 10
    /\ FirstAssigned(track, "MS_BEG") < FirstAssigned(track, "MS_TMIN")

\* the low-mass branch is about to run
LowMassBranch ==
    /\ pc = "des_regime"
    /\ track.mass < high_mass
    /\ Len(track.sptcri) <= 6

\* C15: the low-mass branch leaves the MS_BEG entry of iptcri as it was and
\* sets every pending EEP to 0.
C15_LowMassReset ==
    [][LowMassBranch
       => /\ Ip(track', "MS_BEG") = Ip(track, "MS_BEG")
          /\ \A k \in 1..Len(please_define(track)) :
               Ip(track', please_define(track)[k]) = 0]_vars

\* the low-mass branch has reset the thermal-pulse markers of a TP-AGB track
\* and kept its MS_BEG
C15_Witness ==
    /\ entry.call = "define_eep_stages"
    /\ track.agb
    /\ track.mass < high_mass
    /\ Len(track.sptcri) <= 6
    /\ Len(track.log) > 0
    /\ track.log[Len(track.log)] = [op |-> "add_eep", eep |-> "TPAGB2", ind |-> 0]
    /\ \E k \in DOMAIN track.log :
         track.log[k].eep = "TPAGB2" /\ track.log[k].ind > 0
    /\ Ip(track, "TPAGB2") = 0
    /\ Ip(track, "MS_BEG") > 0

\* the low-mass branch has run: its reset has left its note on SG_MAXL
LowMassDone ==
    /\ entry.call = "define_eep_stages"
    /\ "SG_MAXL" \in DOMAIN track.info
    /\ track.info["SG_MAXL"] = "No MS_TO"

\* C16 (as the specification states it): after the low-mass branch, MS_TO is
\* the sample nearest max_age and MS_TMIN the sample nearest half of MS_TO's
\* age, or, if that is not after MS_BEG, the sample nearest the age midway
\* between MS_BEG and MS_TO.
C16_LowMassPlacedByAge ==
    LET ages2 == [k \in 1..NData(track) |-> 2 * track.age[k]]
        placed(to, beg, half) ==
            /\ to = ArgNearest(track.age, max_age)
            /\ Ip(track, "MS_TMIN") =
                 IF half <= beg
                 THEN ArgNearest(ages2, At(track.age, to) + At(track.age, beg))
                 ELSE half
        at(to) == placed(to, Ip(track, "MS_BEG"),
                         ArgNearest(ages2, At(track.age, to)))
    IN  LowMassDone => at(Ip(track, "MS_TO"))

\* the result r of an MS_TO strategy calls for the next one: nothing was
\* found, or it lies within 0.01 dex of MS_TMIN
Unconvincing(r) ==
    r = -1 \/ delta_te_eeps(track, r, Ip(track, "MS_TMIN")) < 1

\* C17 (as the specification states it): when add_ms_eeps has returned, each
\* of its peak searches for MS_TO that was followed by another one had
\* found nothing or a point too near MS_TMIN.
C17_NextOnlyAfterFailure ==
    pc = "des_he"
      => \A k \in DOMAIN track.log :
           (/\ k + 1 \in DOMAIN track.log
            /\ track.log[k].op = "peak_finder"
            /\ track.log[k + 1].op = "peak_finder")
             => Unconvincing(track.log[k].ind)

\* the high-mass branch has placed its central-helium EEPs and gone on
HighMassCens ==
    /\ entry.call = "define_eep_stages"
    /\ ~track.hb
    /\ track.mass >= high_mass
    /\ "TPAGB" \in DOMAIN track.info
    /\ track.info["TPAGB"] = "Last track value"

\* C18 (as the specification states it): in the high-mass branch a
\* YCEN_0.000 found at the last sample is moved off it, to the average of
\* the YCEN_0.005 index and the last sample index.
C18_LastMarkerPatched ==
    HighMassCens => Ip(track, "YCEN_0.000") # NData(track) - 1

\* C18 (amended): in the high-mass branch YCEN_0.000 is reassigned to the
\* average (rounded down) of the YCEN_0.005 index and the last sample index
\* exactly when the central helium at the YCEN_0.005 index is 0; otherwise
\* it stays where add_cen_eeps put it, at the last sample too.
C18_PatchedWhenHeliumGone ==
    HighMassCens
      => IF At(track.ycen, Ip(track, "YCEN_0.005")) = 0
         THEN /\ Ip(track, "YCEN_0.000")
                   = (Ip(track, "YCEN_0.005") + NData(track) - 1) \div 2
              /\ track.info["YCEN_0.000"]
                   = "Reset between YCEN=0.005 and final point"
         ELSE track.info["YCEN_0.000"] = "YCEN =="

\* YCEN_0.005 matched a sample without helium and YCEN_0.000 was reset
C18_Witness ==
    /\ HighMassCens
    /\ Ip(track, "YCEN_0.005") > 0
    /\ At(track.ycen, Ip(track, "YCEN_0.005")) = 0
    /\ Ip(track, "YCEN_0.000")
         = (Ip(track, "YCEN_0.005") + NData(track) - 1) \div 2
    /\ Ip(track, "YCEN_0.000") > Ip(track, "YCEN_0.005")

\* the high-mass branch has spread the five placeholder EEPs
HighMassSpread ==
    /\ HighMassCens
    /\ "RG_TIP" \in DOMAIN track.info
    /\ track.info["RG_TIP"] = "linspace between MS_TO, HE_BEG"

SpreadNames == <<"MS_TO", "SG_MAXL", "RG_MINL", "RG_BMP1", "RG_BMP2", "RG_TIP",
                 "HE_BEG">>

\* p is an integer nearest to the k-th of seven even steps from a to b
SeventhStep(p, a, b, k) ==
    LET d == 6 * p - (6 * a + k * (b - a))
    IN  d <= 3 /\ -d <= 3

SpreadEven ==
    \A k \in 1..5 :
        SeventhStep(Ip(track, SpreadNames[k + 1]), Ip(track, "MS_TO"),
                    Ip(track, "HE_BEG"), k)

\* C19 (as the specification states it): the five placeholder EEPs of the
\* high-mass branch are the interior points of seven even steps from MS_TO to
\* HE_BEG and lie in non-decreasing order between them, whatever HE_BEG is.
C19_SpreadAscending ==
    HighMassSpread
      => /\ SpreadEven
         /\ \A k \in 1..6 :
                Ip(track, SpreadNames[k]) <= Ip(track, SpreadNames[k + 1])

\* C19 (amended): the five placeholder EEPs are the interior points of seven
\* even steps from MS_TO to HE_BEG; they are in non-decreasing order when
\* HE_BEG is not before MS_TO and in non-increasing order, ending above
\* HE_BEG, when it is (HE_BEG = 0, not found).
C19_SpreadFollowsHeBeg ==
    HighMassSpread
      => /\ SpreadEven
         /\ IF Ip(track, "HE_BEG") >= Ip(track, "MS_TO")
            THEN \A k \in 1..6 :
                     Ip(track, SpreadNames[k]) <= Ip(track, SpreadNames[k + 1])
            ELSE \A k \in 1..6 :
                     Ip(track, SpreadNames[k]) >= Ip(track, SpreadNames[k + 1])

\* HE_BEG was not found and the placeholders run down from MS_TO towards 0
C19_Witness ==
    /\ HighMassSpread
    /\ track.info["HE_BEG"] = "No HE_BEG"
    /\ Ip(track, "HE_BEG") = 0
    /\ Ip(track, "MS_TO") > 6
    /\ Ip(track, "SG_MAXL") > Ip(track, "RG_TIP")

\* the closest pair of defined EEPs of t, as check_sandros_eeps finds it:
\* 0-based positions among the defined EEPs
SandroSame(t) == ArgMin(Diff(Positive(t.iptcri)))

SandroName(t, k) == At(Take(eep_list, WhereGt(t.iptcri, 0)), k)

\* two consecutive defined EEPs are at most one sample apart, the defined
\* EEPs before and after are fewer than 5 apart, and the EEPs named next
\* before and next after those are fewer than 9 apart
SandroTight(t) ==
    /\ ~t.hb /\ ~t.agb
    /\ Len(Positive(t.iptcri)) > 2
    /\ SandroSame(t) >= 1
    /\ At(Diff(Positive(t.iptcri)), SandroSame(t)) \in {0, 1}
    /\ At(Positive(t.iptcri), SandroSame(t) + 1)
         - At(Positive(t.iptcri), SandroSame(t) - 1) \in 0..4
    /\ IndexOf(eep_list, SandroName(t, SandroSame(t) - 1)) > 1
    /\ IndexOf(eep_list, SandroName(t, SandroSame(t) + 1)) < Len(eep_list)
    /\ LET earlier ==
               eep_list[IndexOf(eep_list, SandroName(t, SandroSame(t) - 1)) - 1]
           later ==
               eep_list[IndexOf(eep_list, SandroName(t, SandroSame(t) + 1)) + 1]
       IN  /\ Ip(t, earlier) > 0
           /\ Ip(t, later) - Ip(t, earlier) \in 0..8

\* C20: a call of check_sandros_eeps that finds two consecutive defined EEPs
\* at most one sample apart, their neighbours fewer than 5 apart and the
\* next-further named EEPs fewer than 9 apart sets track.flag to the
\* unworkable message and changes no EEP index.
C20_TightIsUnworkable ==
    [][(entry'.call = "check_sandros_eeps" /\ entry.call = "define_eep_stages"
          /\ SandroTight(track))
         => /\ track'.flag = "Track is unworkable. Check Sandro's eeps"
            /\ track'.iptcri = track.iptcri]_vars

\* C21: no step of load_critical_points or define_eep_stages changes the
\* table's reference model numbers for the track's mass (ptcri.data_dict);
\* only fix_ptcri may touch the table.
C21_TableReadOnly ==
    [][ptcri'.data_dict = ptcri.data_dict]_vars

\* the track of parameters p as load_critical_points leaves it at the call
\* of define_eep_stages, or at its early return, when it is processed alone
AloneLoaded(p) ==
    LET init(t, tab) == [t EXCEPT !.iptcri = InitIptcri(t, tab.data_dict)]
        load(t0, tab0) ==
            IF t0.flag # None THEN t0
            ELSE IF ~tab0.has_mass THEN [t0 EXCEPT !.flag = "no ptcri mass"]
            ELSE init(match_sptcri(t0, tab0.data_dict), match_ptcri(t0, tab0))
    IN  load(NewTrack(p), NewPtcri(p))

C23_PmsBegFirstOlder ==
    (pc = "des_ms_beg" /\ entry.call = "define_eep_stages" /\ ~track.hb)
      => /\ At(track.age, Ip(track, "PMS_BEG")) > 20
         /\ At(track.age, At(track.sptcri, 0)) <= 20
              => Ip(track, "PMS_BEG") = WhereGt(track.age, 20)[1]

\* add_sg_rg_eeps has set RG_MINL to the reference RG base
MinlFellBack ==
    /\ entry.call = "define_eep_stages"
    /\ "RG_MINL" \in DOMAIN track.info
    /\ track.info["RG_MINL"] = "Set RG_MINL to Sandro's RG_BASE"

\* the positions in track.log, after the zeroing of define_eep_stages, where
\* the EEP name was stored
StoredAt(name) ==
    {k \in (Len(please_define(track)) + 1)..Len(track.log) :
       track.log[k].op = "add_eep" /\ track.log[k].eep = name}

\* C24: when RG_MINL has fallen back to the reference RG base, which in
\* these tracks happens only after the three minimum-first policies have
\* been tried without a plausible result, an SG_MAXL-first search has stored
\* SG_MAXL before the fallback stored RG_MINL.
C24_MaxlFirstBeforeFallback ==
    MinlFellBack
      => \E k \in StoredAt("SG_MAXL") : \E j \in StoredAt("RG_MINL") : k < j

\* every two consecutive defined EEPs of t are more than one sample apart
Spaced(t) ==
    \A k \in 1..(Len(Positive(t.iptcri)) - 1) :
        Positive(t.iptcri)[k + 1] - Positive(t.iptcri)[k] > 1

\* C25: a call of check_sandros_eeps returns, and at its return the track is
\* flagged or every two consecutive defined EEPs are more than one sample
\* apart.
C25_ReturnsFlaggedOrSpaced ==
    entry.call = "check_sandros_eeps"
      => /\ pc = "done"
         /\ track.flag # None \/ Spaced(track)

\* add_agb_eeps has returned on the track
AgbDone ==
    /\ entry.call = "define_eep_stages"
    /\ "AGB_LY2" \in DOMAIN track.info
    /\ track.info["AGB_LY2"] = "AGB_LY2"

\* the candidate minima of add_agb_eeps, as sample indices
AgbCandidates ==
    Take(ex_inds(track), Prefix(find_peaks(diff_L(track), FALSE), 6))

\* C26: on return from add_agb_eeps a marker is not a candidate minimum
\* inside a thermal pulse. AGB_LY1 has normalized age <= 0.98 when the first
\* candidate minimum lies before normalized age 0.89, and AGB_LY2 has
\* normalized age <= 0.999, or else the marker is the evenly spaced point
\* between YCEN_0.000 and the last EEP; with two candidates or fewer both
\* markers are those evenly spaced points.
C26_MarkersOutsidePulses ==
    AgbDone
      => IF Len(AgbCandidates) <= 2
         THEN /\ Ip(track, "AGB_LY1") = no_agb(track, 1)
              /\ Ip(track, "AGB_LY2") = no_agb(track, 2)
         ELSE /\ 100 * At(track.age, AgbCandidates[1]) < 89 * At(track.age, -1)
                   => \/ ~NormAgeGt(track, Ip(track, "AGB_LY1"), 98, 100)
                      \/ Ip(track, "AGB_LY1") = no_agb(track, 1)
              /\ \/ ~NormAgeGt(track, Ip(track, "AGB_LY2"), 999, 1000)
                 \/ Ip(track, "AGB_LY2") = no_agb(track, 2)

\* the two deepest minima lay in the pulses and the markers were moved to
\* earlier candidates
C26_Witness ==
    /\ AgbDone
    /\ Len(AgbCandidates) > 2
    /\ NormAgeGt(track, TwoDeepest(track, Prefix(find_peaks(diff_L(track),
                                                            FALSE), 6))[1],
                 98, 100)
    /\ 100 * At(track.age, AgbCandidates[1]) < 89 * At(track.age, -1)
    /\ Ip(track, "AGB_LY1") = AgbCandidates[1]
    /\ Ip(track, "AGB_LY2") \in {AgbCandidates[k] : k \in 2..Len(AgbCandidates)}
    /\ ~NormAgeGt(track, Ip(track, "AGB_LY2"), 999, 1000)

\* the non-zero central-helium EEPs of r do not precede istart and are
\* strictly increasing
CenOrdered(r, istart) ==
    Ok(r) => \A k \in 1..Len(cens(r)) :
               Ip(r, YcenNames[cens(r)[k]]) > 0
                 => /\ Ip(r, YcenNames[cens(r)[k]]) >= istart
                    /\ \A j \in 1..(k - 1) :
                           Ip(r, YcenNames[cens(r)[j]])
                             < Ip(r, YcenNames[cens(r)[k]])

\* C27: wherever define_eep_stages calls add_cen_eeps, the non-zero indices
\* it assigns to successive YCEN EEPs are strictly increasing and none lies
\* before the search start (RG_TIP, MS_TO for high mass, 0 for
\* horizontal-branch tracks), also when a crossing is not found.
C27_CenIncreasingFromStart ==
    /\ pc = "des_he"
         => CenOrdered(add_cen_eeps(add_eep(track, "HE_BEG", 0, "Initializing"),
                                    FALSE, -1),
                       Ip(track, "RG_TIP"))
    /\ (pc = "des_hb" /\ track.hb)
         => CenOrdered(add_cen_eeps(add_hb_beg(track), TRUE, -1), 0)
    /\ (pc = "des_regime" /\ track.mass >= high_mass)
         => CenOrdered(add_cen_eeps(high_mass_ms(track), FALSE,
                                    first_xcen_zero(track)),
                       first_xcen_zero(track))

\* every non-zero entry of t.iptcri is the index of a sample after the first
ValidIndices(t) ==
    \A k \in DOMAIN t.iptcri :
        t.iptcri[k] # 0 => (t.iptcri[k] > 0 /\ t.iptcri[k] <= NData(t) - 1)

\* C28: when load_critical_points has initialised track.iptcri from the
\* reference indices, and when define_eep_stages has returned, every
\* non-zero entry of track.iptcri is a valid sample index.
C28_IndicesValid ==
    /\ (pc = "define_eep_stages" /\ entry.call = "load_critical_points")
         => ValidIndices(track)
    /\ Returned => ValidIndices(track)

\* define_eep_stages has returned from its intermediate-mass branch
InterReturned ==
    /\ Returned
    /\ ~track.hb
    /\ track.mass < high_mass
    /\ Len(track.sptcri) > 6
    /\ "HE_BEG" \in DOMAIN track.info

\* C29: when define_eep_stages returns from the intermediate-mass branch
\* with HE_BEG not found (0) or with at most 10 non-zero reference points,
\* HE_BEG, every YCEN EEP, AGB_LY1 and AGB_LY2 are 0.
C29_NoHeliumEepsLeft ==
    (InterReturned /\ (Ip(track, "HE_BEG") = 0 \/ nsandro_pts(track) <= 10))
      => \A name \in {"HE_BEG", "AGB_LY1", "AGB_LY2"}
                       \cup {YcenNames[k] : k \in 1..Len(YcenNames)} :
             Ip(track, name) = 0

\* the index stored by the k-th entry of track.log is a plausible RG_MINL
PlausibleMinl(k) ==
    ~check_minl(track, track.log[k].ind, Ip(track, "MS_TO"))

\* C30: when define_eep_stages returns from the intermediate-mass branch,
\* the first RG_MINL index that add_sg_rg_eeps stored and that passes every
\* test of check_minl (at least 50 samples after MS_TO, not -1, within 100
\* samples of the reference RG base, no central hydrogen) is the RG_MINL
\* of the track.
C30_PlausibleMinlKept ==
    InterReturned
      => \A k \in StoredAt("RG_MINL") :
             (/\ PlausibleMinl(k)
              /\ \A j \in StoredAt("RG_MINL") : j < k => ~PlausibleMinl(j))
               => Ip(track, "RG_MINL") = track.log[k].ind
====
